---- MODULE Spec2Model ----
(***************************************************************************)
(* Model of the widgets library (averagejoeslab/widgets).                  *)
(*                                                                         *)
(* List widget (src/src/list.ts): a ListModel is a record, every           *)
(* transition function of list.ts is an operator from models to models,    *)
(* and every action applies one transition function to the current model.  *)
(* Indices are 0-based as in the source; items[i] of the source is         *)
(* model.items[i + 1] here.                                                *)
(***************************************************************************)
EXTENDS Integers, Sequences, FiniteSets, TLC

VARIABLES list, input, lastOp, loop, table, viewport, textInput, timer, now,
          since, help, progress

vars ==
  <<list, input, lastOp, loop, table, viewport, textInput, timer, now, since,
    help, progress>>

(* ------------------------------ bounds --------------------------------- *)

MaxItems == 4
MaxHeight == 2
MaxNewItems == 2

\* iterations after which a skip loop is reported as not terminating
LoopFuel == 2 * MaxItems + 2

(* ------------------------------ helpers -------------------------------- *)

Max(a, b) == IF a >= b THEN a ELSE b

Min(a, b) == IF a <= b THEN a ELSE b

\* titles are sequences of characters; freshly built item arrays carry one
\* title per position, as the "Item 1", "Item 2", ... of the test suite do
TitleOf(i) ==
  IF i % 3 = 1 THEN <<"A">>
  ELSE IF i % 3 = 2 THEN <<"a", "b">>
  ELSE <<"B">>

Titles == {TitleOf(i) : i \in 1..MaxItems}

Queries == {<< >>, <<"a">>, <<"B">>}

ListItem == [title : Titles, disabled : BOOLEAN]

FreshLists(n) ==
  UNION { { [i \in 1..k |-> [title |-> TitleOf(i), disabled |-> f[i]]] :
              f \in [1..k -> BOOLEAN] } : k \in 0..n }

\* arguments of createList
ItemLists == FreshLists(MaxItems)

\* arguments of setItems
NewItemLists == FreshLists(MaxNewItems)

\* String.prototype.toLowerCase on one character
toLowerChar(c) ==
  CASE c = "A" -> "a"
    [] c = "B" -> "b"
    [] OTHER -> c

toLowerCase(s) == [i \in 1..Len(s) |-> toLowerChar(s[i])]

\* String.prototype.includes
includes(s, q) ==
  \E i \in 0..(Len(s) - Len(q)) : SubSeq(s, i + 1, i + Len(q)) = q

\* model.items[i]?.disabled : undefined (falsy) outside the array
isDisabled(items, i) ==
  /\ i \in 0..(Len(items) - 1)
  /\ items[i + 1].disabled

(* ------------------------------ createList ----------------------------- *)

DefaultPageSize == 10

createList(items, selected, height, wrap) ==
  [ items |-> items,
    selected |-> Max(0, Min(selected, Len(items) - 1)),
    height |-> height,
    offset |-> 0,
    cursor |-> <<">", " ">>,
    uncursor |-> <<" ", " ">>,
    showDescriptions |-> FALSE,
    wrap |-> wrap ]

(* ------------------------------ setItems ------------------------------- *)

\* setItems without the clamp of selected
setItemsMutant(model, items) ==
  [model EXCEPT !.items = items, !.offset = 0]

setItems(model, items) ==
  [model EXCEPT !.items = items,
                !.selected = Min(model.selected, Max(0, Len(items) - 1)),
                !.offset = 0]

(* ------------------------------ updateOffset --------------------------- *)

\* updateOffset that rebuilds the model and forgets its wrap option
updateOffsetMutant(model) ==
  IF model.height = 0
  THEN [model EXCEPT !.offset = 0, !.wrap = TRUE]
  ELSE LET down == IF model.selected >= model.offset + model.height
                   THEN model.selected - model.height + 1
                   ELSE model.offset
           up == IF model.selected < model.offset
                 THEN model.selected
                 ELSE down
       IN [model EXCEPT !.offset = up, !.wrap = TRUE]

updateOffset(model) ==
  IF model.height = 0
  THEN [model EXCEPT !.offset = 0]
  ELSE LET down == IF model.selected >= model.offset + model.height
                   THEN model.selected - model.height + 1
                   ELSE model.offset
           up == IF model.selected < model.offset
                 THEN model.selected
                 ELSE down
       IN [model EXCEPT !.offset = up]

(* ------------------------------ skip loops ----------------------------- *)

\* result of a skip loop: the index it ends on, the iterations it ran,
\* whether it ended within LoopFuel iterations, and (moveByPage) whether
\* it ran off an end of the array
LoopResult(sel, n, term, off) ==
  [selected |-> sel, steps |-> n, terminated |-> term, ranOff |-> off]

NoLoop == [steps |-> 0, terminated |-> TRUE]

LoopInfo(r) == [steps |-> r.steps, terminated |-> r.terminated]

(* ------------------------------ moveUp --------------------------------- *)

\* wrapUp ignoring the wrap flag
wrapUpMutant(model, n) == IF n < 0 THEN 0 ELSE n

wrapUp(model, n) ==
  IF n < 0
  THEN (IF model.wrap THEN Len(model.items) - 1 ELSE 0)
  ELSE n

\* loop condition of moveUp without the bound on attempts
moveUpContinueMutant(model, newSelected, attempts) ==
  isDisabled(model.items, newSelected)

moveUpContinue(model, newSelected, attempts) ==
  /\ isDisabled(model.items, newSelected)
  /\ attempts < Len(model.items)

RECURSIVE moveUpLoop(_, _, _, _)
moveUpLoop(model, newSelected, attempts, fuel) ==
  IF moveUpContinue(model, newSelected, attempts)
  THEN IF fuel = 0
       THEN LoopResult(newSelected, attempts, FALSE, FALSE)
       ELSE moveUpLoop(model, wrapUp(model, newSelected - 1),
                       attempts + 1, fuel - 1)
  ELSE LoopResult(newSelected, attempts, TRUE, FALSE)

\* moveUp without the skip loop
moveUpSkipMutant(model) ==
  LoopResult(wrapUp(model, model.selected - 1), 0, TRUE, FALSE)

moveUpSkip(model) ==
  moveUpLoop(model, wrapUp(model, model.selected - 1), 0, LoopFuel)

moveUp(model) ==
  IF Len(model.items) = 0
  THEN model
  ELSE updateOffset([model EXCEPT !.selected = moveUpSkip(model).selected])

(* ------------------------------ moveDown ------------------------------- *)

wrapDown(model, n) ==
  IF n >= Len(model.items)
  THEN (IF model.wrap THEN 0 ELSE Len(model.items) - 1)
  ELSE n

moveDownContinue(model, newSelected, attempts) ==
  /\ isDisabled(model.items, newSelected)
  /\ attempts < Len(model.items)

RECURSIVE moveDownLoop(_, _, _, _)
moveDownLoop(model, newSelected, attempts, fuel) ==
  IF moveDownContinue(model, newSelected, attempts)
  THEN IF fuel = 0
       THEN LoopResult(newSelected, attempts, FALSE, FALSE)
       ELSE moveDownLoop(model, wrapDown(model, newSelected + 1),
                         attempts + 1, fuel - 1)
  ELSE LoopResult(newSelected, attempts, TRUE, FALSE)

moveDownSkip(model) ==
  moveDownLoop(model, wrapDown(model, model.selected + 1), 0, LoopFuel)

moveDown(model) ==
  IF Len(model.items) = 0
  THEN model
  ELSE updateOffset([model EXCEPT !.selected = moveDownSkip(model).selected])

(* ------------------------------ moveToStart / moveToEnd ---------------- *)

RECURSIVE moveToStartLoop(_, _, _, _)
moveToStartLoop(model, newSelected, n, fuel) ==
  IF isDisabled(model.items, newSelected) /\ newSelected < Len(model.items)
  THEN IF fuel = 0
       THEN LoopResult(newSelected, n, FALSE, FALSE)
       ELSE moveToStartLoop(model, newSelected + 1, n + 1, fuel - 1)
  ELSE LoopResult(newSelected, n, TRUE, FALSE)

moveToStartSkip(model) == moveToStartLoop(model, 0, 0, LoopFuel)

moveToStart(model) ==
  IF Len(model.items) = 0
  THEN model
  ELSE updateOffset([model EXCEPT !.selected = moveToStartSkip(model).selected])

RECURSIVE moveToEndLoop(_, _, _, _)
moveToEndLoop(model, newSelected, n, fuel) ==
  IF isDisabled(model.items, newSelected) /\ newSelected >= 0
  THEN IF fuel = 0
       THEN LoopResult(newSelected, n, FALSE, FALSE)
       ELSE moveToEndLoop(model, newSelected - 1, n + 1, fuel - 1)
  ELSE LoopResult(newSelected, n, TRUE, FALSE)

moveToEndSkip(model) ==
  moveToEndLoop(model, Len(model.items) - 1, 0, LoopFuel)

moveToEnd(model) ==
  IF Len(model.items) = 0
  THEN model
  ELSE updateOffset([model EXCEPT !.selected = moveToEndSkip(model).selected])

(* ------------------------------ moveByPage ----------------------------- *)

Directions == {"up", "down"}

pageSize(model) == IF model.height > 0 THEN model.height ELSE DefaultPageSize

pageCandidate(model, direction) ==
  LET newSelected == model.selected +
        (IF direction = "up" THEN -pageSize(model) ELSE pageSize(model))
  IN Max(0, Min(newSelected, Len(model.items) - 1))

RECURSIVE moveByPageLoop(_, _, _, _, _)
moveByPageLoop(model, direction, newSelected, n, fuel) ==
  IF isDisabled(model.items, newSelected)
  THEN IF fuel = 0
       THEN LoopResult(newSelected, n, FALSE, FALSE)
       ELSE LET next == newSelected + (IF direction = "up" THEN -1 ELSE 1)
            IN IF next < 0 \/ next >= Len(model.items)
               THEN LoopResult(next, n + 1, TRUE, TRUE)
               ELSE moveByPageLoop(model, direction, next, n + 1, fuel - 1)
  ELSE LoopResult(newSelected, n, TRUE, FALSE)

moveByPageSkip(model, direction) ==
  moveByPageLoop(model, direction, pageCandidate(model, direction), 0, LoopFuel)

\* moveByPage that selects the clamped candidate when the loop runs off an end
moveByPageMutant(model, direction) ==
  IF Len(model.items) = 0
  THEN model
  ELSE LET r == moveByPageSkip(model, direction)
       IN IF r.ranOff
          THEN updateOffset([model EXCEPT
                               !.selected = pageCandidate(model, direction)])
          ELSE updateOffset([model EXCEPT !.selected = r.selected])

moveByPage(model, direction) ==
  IF Len(model.items) = 0
  THEN model
  ELSE LET r == moveByPageSkip(model, direction)
       IN IF r.ranOff
          THEN model
          ELSE updateOffset([model EXCEPT !.selected = r.selected])

(* ------------------------------ select --------------------------------- *)

\* select without the test of the disabled flag
selectMutant(model, index) ==
  IF index < 0 \/ index >= Len(model.items)
  THEN model
  ELSE updateOffset([model EXCEPT !.selected = index])

select(model, index) ==
  IF index < 0 \/ index >= Len(model.items)
  THEN model
  ELSE IF isDisabled(model.items, index)
       THEN model
       ELSE updateOffset([model EXCEPT !.selected = index])

(* ------------------------------ filter --------------------------------- *)

\* a predicate is the set of items it accepts: predicates on the title and
\* predicates on the disabled flag
Predicates ==
  { {item \in ListItem : item.title \in T} : T \in SUBSET Titles }
    \cup { {item \in ListItem : item.disabled = b} : b \in BOOLEAN }

RECURSIVE arrayFilter(_, _)
arrayFilter(items, accepted) ==
  IF Len(items) = 0
  THEN << >>
  ELSE IF Head(items) \in accepted
       THEN <<Head(items)>> \o arrayFilter(Tail(items), accepted)
       ELSE arrayFilter(Tail(items), accepted)

\* filter resetting the selection to index 0
filterMutant(model, accepted) ==
  [model EXCEPT !.items = arrayFilter(model.items, accepted),
                !.selected = 0,
                !.offset = 0]

filter(model, accepted) ==
  setItems(model, arrayFilter(model.items, accepted))

titleMatches(query) ==
  {item \in ListItem : includes(toLowerCase(item.title), toLowerCase(query))}

filterByTitle(model, query) == filter(model, titleMatches(query))

(***************************************************************************)
(* Table widget (table.ts, held in src/src/progress.test.ts).  Strings are *)
(* sequences of one-character strings; the box-drawing glyphs of the       *)
(* border presets are written with ASCII stand-ins of the same length.     *)
(* A row is a function from the keys it has to their values; a key the row *)
(* lacks reads as undefined.  width, minWidth and maxWidth of a column are *)
(* 0 when absent (the source tests them for truthiness).                   *)
(***************************************************************************)

(* ------------------------------ Table: data ---------------------------- *)

MaxRows == 2

\* String.prototype.repeat
RECURSIVE repeat(_, _)
repeat(s, n) == IF n <= 0 THEN << >> ELSE s \o repeat(s, n - 1)

\* Array.prototype.join
RECURSIVE join(_, _)
join(strs, sep) ==
  IF Len(strs) = 0 THEN << >>
  ELSE IF Len(strs) = 1 THEN strs[1]
  ELSE strs[1] \o sep \o join(Tail(strs), sep)

NoBorder ==
  [ top |-> << >>, topLeft |-> << >>, topRight |-> << >>, topMid |-> << >>,
    bottom |-> << >>, bottomLeft |-> << >>, bottomRight |-> << >>,
    bottomMid |-> << >>,
    left |-> << >>, right |-> << >>, mid |-> << >>,
    midLeft |-> << >>, midRight |-> << >>, midMid |-> << >>,
    horizontal |-> << >>, vertical |-> <<" ">> ]

SimpleBorder ==
  [ top |-> <<"-">>, topLeft |-> << >>, topRight |-> << >>, topMid |-> << >>,
    bottom |-> <<"-">>, bottomLeft |-> << >>, bottomRight |-> << >>,
    bottomMid |-> << >>,
    left |-> << >>, right |-> << >>, mid |-> <<"-">>,
    midLeft |-> << >>, midRight |-> << >>, midMid |-> << >>,
    horizontal |-> <<"-">>, vertical |-> <<" ", "|", " ">> ]

\* a preset whose sixteen glyphs are one character each: h the horizontal
\* glyph, v the vertical one, c the glyph of the corners and junctions
BoxBorder(h, v, c) ==
  [ top |-> <<h>>, topLeft |-> <<c>>, topRight |-> <<c>>, topMid |-> <<c>>,
    bottom |-> <<h>>, bottomLeft |-> <<c>>, bottomRight |-> <<c>>,
    bottomMid |-> <<c>>,
    left |-> <<v>>, right |-> <<v>>, mid |-> <<h>>,
    midLeft |-> <<c>>, midRight |-> <<c>>, midMid |-> <<c>>,
    horizontal |-> <<h>>, vertical |-> <<v>> ]

TableBorders ==
  [ none |-> NoBorder,
    simple |-> SimpleBorder,
    rounded |-> BoxBorder("-", "|", "o"),
    single |-> BoxBorder("-", "|", "+"),
    double |-> BoxBorder("=", "H", "#"),
    thick |-> BoxBorder("~", "I", "*") ]

\* a caller-supplied border: top and bottom glyphs empty, the others set
CustomBorder ==
  [BoxBorder("-", "|", "+") EXCEPT !.top = << >>, !.bottom = << >>]

\* the sizing constraints a column may carry
Sizings == [width : {0, 2}, minWidth : {0, 4}, maxWidth : {0, 1}]

Formats == {"none", "percent"}

Aligns == {"undefined", "left", "center", "right"}

TableColumn(key, title, sizing, align, format) ==
  [ key |-> key, title |-> title,
    width |-> sizing.width, minWidth |-> sizing.minWidth,
    maxWidth |-> sizing.maxWidth,
    align |-> align, format |-> format ]

NameColumn(sizing, align) ==
  TableColumn("name", <<"N">>, sizing, align, "none")

AgeColumn(align, format) ==
  TableColumn("age", <<"A">>, [width |-> 0, minWidth |-> 0, maxWidth |-> 0],
              align, format)

\* rows have an age and an optional name
Rows ==
  { [name |-> <<"x", "y", "z">>, age |-> <<"4", "2">>],
    [age |-> <<"7">>] }

RowLists == UNION {[1..k -> Rows] : k \in 0..MaxRows}

(* ------------------------------ Table: column widths ------------------- *)

\* getValue: the value as a sequence of at most one element (empty when
\* undefined)
getValue(row, col) ==
  IF col.key \in DOMAIN row THEN <<row[col.key]>> ELSE << >>

\* String(value ?? '')
String(value) == IF Len(value) = 0 THEN << >> ELSE value[1]

\* the custom formatter (value) => `${value ?? ''}%`
formatPercent(value) == String(value) \o <<"%">>

\* col.format ? col.format(value, row) : String(value ?? '')
formatted(row, col) ==
  IF col.format = "percent"
  THEN formatPercent(getValue(row, col))
  ELSE String(getValue(row, col))

RECURSIVE createTableContentWidth(_, _, _)
createTableContentWidth(col, rows, width) ==
  IF Len(rows) = 0
  THEN width
  ELSE createTableContentWidth(col, Tail(rows),
                               Max(width, Len(formatted(Head(rows), col))))

createTableColumnWidth(col, rows) ==
  LET width == createTableContentWidth(col, rows, Len(col.title))
  IN IF col.width # 0
     THEN col.width
     ELSE LET atLeast == IF col.minWidth # 0
                         THEN Max(width, col.minWidth)
                         ELSE width
          IN IF col.maxWidth # 0 THEN Min(atLeast, col.maxWidth) ELSE atLeast

\* options: columns, rows, border, showHeader, showHeaderSeparator, padding,
\* selected, selectable, with the defaults of createTable already applied
createTable(options) ==
  [ columns |-> options.columns,
    rows |-> options.rows,
    border |-> options.border,
    showHeader |-> options.showHeader,
    showHeaderSeparator |-> options.showHeaderSeparator,
    padding |-> options.padding,
    selected |-> options.selected,
    cursor |-> <<">">>,
    selectable |-> options.selectable,
    columnWidths |->
      [i \in 1..Len(options.columns) |->
         createTableColumnWidth(options.columns[i], options.rows)] ]

\* the content loop of setRows comparing each cell with the title instead
\* of the running maximum
RECURSIVE setRowsContentWidthMutant(_, _, _)
setRowsContentWidthMutant(col, rows, width) ==
  IF Len(rows) = 0
  THEN width
  ELSE setRowsContentWidthMutant(
         col, Tail(rows),
         IF Len(formatted(Head(rows), col)) > Len(col.title)
         THEN Len(formatted(Head(rows), col))
         ELSE width)

RECURSIVE setRowsContentWidth(_, _, _)
setRowsContentWidth(col, rows, width) ==
  IF Len(rows) = 0
  THEN width
  ELSE setRowsContentWidth(col, Tail(rows),
                           Max(width, Len(formatted(Head(rows), col))))

\* setRows letting a fixed width grow to fit the content
setRowsColumnWidthGrows(col, rows) ==
  LET width == setRowsContentWidth(col, rows, Len(col.title))
  IN IF col.width # 0
     THEN Max(width, col.width)
     ELSE LET atLeast == IF col.minWidth # 0
                         THEN Max(width, col.minWidth)
                         ELSE width
          IN IF col.maxWidth # 0 THEN Min(atLeast, col.maxWidth) ELSE atLeast

\* setRows without the maxWidth constraint
setRowsColumnWidthNoMax(col, rows) ==
  LET width == setRowsContentWidth(col, rows, Len(col.title))
  IN IF col.width # 0
     THEN col.width
     ELSE IF col.minWidth # 0 THEN Max(width, col.minWidth) ELSE width

setRowsColumnWidth(col, rows) ==
  LET width == setRowsContentWidth(col, rows, Len(col.title))
  IN IF col.width # 0
     THEN col.width
     ELSE LET atLeast == IF col.minWidth # 0
                         THEN Max(width, col.minWidth)
                         ELSE width
          IN IF col.maxWidth # 0 THEN Min(atLeast, col.maxWidth) ELSE atLeast

setRows(model, rows) ==
  [model EXCEPT
     !.rows = rows,
     !.columnWidths = [i \in 1..Len(model.columns) |->
                         setRowsColumnWidth(model.columns[i], rows)],
     !.selected = Min(model.selected, Len(rows) - 1)]

(* ------------------------------ Table: selection ----------------------- *)

selectRow(model, index) ==
  IF index < -1 \/ index >= Len(model.rows)
  THEN model
  ELSE [model EXCEPT !.selected = index]

\* Table.moveUp stopping at the first row
Table_moveUpNoWrap(model) ==
  IF ~model.selectable \/ Len(model.rows) = 0
  THEN model
  ELSE [model EXCEPT !.selected = Max(0, model.selected - 1)]

Table_moveUp(model) ==
  IF ~model.selectable \/ Len(model.rows) = 0
  THEN model
  ELSE [model EXCEPT !.selected = IF model.selected <= 0
                                  THEN Len(model.rows) - 1
                                  ELSE model.selected - 1]

Table_moveDown(model) ==
  IF ~model.selectable \/ Len(model.rows) = 0
  THEN model
  ELSE [model EXCEPT !.selected = IF model.selected >= Len(model.rows) - 1
                                  THEN 0
                                  ELSE model.selected + 1]

(* ------------------------------ Table: inputs -------------------------- *)

NoSizing == [width |-> 0, minWidth |-> 0, maxWidth |-> 0]

\* column lists of the specification of selection and column widths
TableColumnLists ==
  {<< >>}
    \cup {<<NameColumn(s, "undefined")>> : s \in Sizings}
    \cup {<<NameColumn(s, "undefined"), AgeColumn("right", f)>> :
            s \in Sizings, f \in Formats}

\* column lists of the specification of rendering: a fitted, a truncating
\* and a padded first column
ViewColumnLists ==
  { << >>,
    <<NameColumn(NoSizing, "undefined"), AgeColumn("right", "percent")>>,
    <<NameColumn([NoSizing EXCEPT !.width = 2], "right"),
      AgeColumn("left", "none")>>,
    <<NameColumn([NoSizing EXCEPT !.minWidth = 4], "center")>> }

ViewBorders ==
  { TableBorders.none, TableBorders.simple, TableBorders.rounded,
    TableBorders.double, CustomBorder }

\* showHeader, showHeaderSeparator and padding as they are passed together
ViewFlags == {<<TRUE, TRUE, 1>>, <<TRUE, FALSE, 0>>, <<FALSE, TRUE, 1>>}

TableOptions(columns, rows, border, showHeader, showHeaderSeparator, padding, selected, selectable) ==
  [ columns |-> columns, rows |-> rows, border |-> border,
    showHeader |-> showHeader, showHeaderSeparator |-> showHeaderSeparator,
    padding |-> padding, selected |-> selected, selectable |-> selectable ]

\* the options createTable defaults to, given columns
DefaultOptions(columns) ==
  TableOptions(columns, << >>, TableBorders.single, TRUE, TRUE, 1, -1, FALSE)

(* ------------------------------ Table: view ---------------------------- *)

\* String.prototype.padStart / padEnd with spaces
padStart(text, width) == repeat(<<" ">>, width - Len(text)) \o text

padEnd(text, width) == text \o repeat(<<" ">>, width - Len(text))

\* padCell that centres with the larger half of the padding on the left
padCellMutant(text, width, align) ==
  IF Len(text) >= width
  THEN SubSeq(text, 1, width)
  ELSE CASE align = "right" -> padStart(text, width)
         [] align = "center" ->
              LET leftPad == (width - Len(text) + 1) \div 2
              IN padEnd(padStart(text, leftPad + Len(text)), width)
         [] OTHER -> padEnd(text, width)

padCell(text, width, align) ==
  IF Len(text) >= width
  THEN SubSeq(text, 1, width)
  ELSE CASE align = "right" -> padStart(text, width)
         [] align = "center" ->
              LET leftPad == (width - Len(text)) \div 2
              IN padEnd(padStart(text, leftPad + Len(text)), width)
         [] OTHER -> padEnd(text, width)

\* renderBorderLine without the early return on an empty glyph
renderBorderLineMutant(model, left, mid, right, horizontal) ==
  LET segments == [i \in 1..Len(model.columnWidths) |->
                     repeat(horizontal,
                            model.columnWidths[i] + model.padding * 2)]
  IN left \o join(segments, mid) \o right

renderBorderLine(model, left, mid, right, horizontal) ==
  IF horizontal = << >>
  THEN << >>
  ELSE LET segments == [i \in 1..Len(model.columnWidths) |->
                          repeat(horizontal,
                                 model.columnWidths[i] + model.padding * 2)]
       IN left \o join(segments, mid) \o right

renderRow(model, cells, isSelected) ==
  LET paddingStr == repeat(<<" ">>, model.padding)
      cellStrs == [i \in 1..Len(cells) |->
                     LET align == IF model.columns[i].align = "undefined"
                                  THEN "left"
                                  ELSE model.columns[i].align
                     IN paddingStr
                          \o padCell(cells[i], model.columnWidths[i], align)
                          \o paddingStr]
      line == model.border.left \o join(cellStrs, model.border.vertical)
                \o model.border.right
  IN IF model.selectable
     THEN (IF isSelected THEN model.cursor \o <<" ">> ELSE <<" ", " ">>) \o line
     ELSE line

\* the lines array that view builds before joining it
viewLines(model) ==
  LET border == model.border
      topLine == renderBorderLine(model, border.topLeft, border.topMid,
                                  border.topRight, border.top)
      headerCells == [i \in 1..Len(model.columns) |-> model.columns[i].title]
      sepLine == renderBorderLine(model, border.midLeft, border.midMid,
                                  border.midRight, border.mid)
      dataLines == [r \in 1..Len(model.rows) |->
                      renderRow(model,
                                [i \in 1..Len(model.columns) |->
                                   formatted(model.rows[r], model.columns[i])],
                                (r - 1) = model.selected)]
      bottomLine == renderBorderLine(model, border.bottomLeft,
                                     border.bottomMid, border.bottomRight,
                                     border.bottom)
  IN (IF topLine # << >> THEN <<topLine>> ELSE << >>)
       \o (IF model.showHeader
           THEN <<renderRow(model, headerCells, FALSE)>>
                  \o (IF model.showHeaderSeparator /\ sepLine # << >>
                      THEN <<sepLine>>
                      ELSE << >>)
           ELSE << >>)
       \o dataLines
       \o (IF bottomLine # << >> THEN <<bottomLine>> ELSE << >>)

Table_view(model) == join(viewLines(model), <<"\n">>)

(* ------------------------------ Viewport ------------------------------- *)

MaxLines == 2

MaxLineLength == 2

MaxAmount == 2

\* scroll offsets are followed up to this distance from 0
MaxOffset == MaxLines + MaxAmount

\* content.split('\n'), line being the line read so far
RECURSIVE splitLines(_, _)
splitLines(s, line) ==
  IF Len(s) = 0
  THEN <<line>>
  ELSE IF Head(s) = "\n"
       THEN <<line>> \o splitLines(Tail(s), << >>)
       ELSE splitLines(Tail(s), Append(line, Head(s)))

split(content) == splitLines(content, << >>)

\* a text of k lines, the first of length w and each next one shorter by one
Content(k, w) ==
  join([i \in 1..k |-> repeat(<<"a">>, w - i + 1)], <<"\n">>)

Contents == {Content(k, w) : k \in 0..MaxLines, w \in 0..MaxLineLength}

\* an optional number: << >> is undefined
Amounts == {<< >>} \cup {<<n>> : n \in (-MaxAmount)..MaxAmount}

DefaultHeight == 10

DefaultScrollSpeed == 1

ViewportOptions(content, width, height) ==
  [ content |-> content, width |-> width, height |-> height,
    xOffset |-> 0, yOffset |-> 0,
    xScrollSpeed |-> DefaultScrollSpeed, yScrollSpeed |-> DefaultScrollSpeed ]

createViewport(options) ==
  [ content |-> options.content,
    lines |-> split(options.content),
    width |-> options.width,
    height |-> options.height,
    xOffset |-> options.xOffset,
    yOffset |-> options.yOffset,
    xScrollSpeed |-> options.xScrollSpeed,
    yScrollSpeed |-> options.yScrollSpeed ]

setContent(model, content) ==
  LET lines == split(content)
  IN [model EXCEPT
        !.content = content,
        !.lines = lines,
        !.yOffset = Min(model.yOffset, Max(0, Len(lines) - model.height))]

setSize(model, width, height) ==
  [model EXCEPT
     !.width = width,
     !.height = height,
     !.yOffset = Min(model.yOffset, Max(0, Len(model.lines) - height))]

\* lines ?? model.yScrollSpeed
orElse(amount, speed) == IF Len(amount) = 0 THEN speed ELSE amount[1]

scrollUp(model, lines) ==
  LET amount == orElse(lines, model.yScrollSpeed)
  IN [model EXCEPT !.yOffset = Max(0, model.yOffset - amount)]

scrollDown(model, lines) ==
  LET amount == orElse(lines, model.yScrollSpeed)
      maxOffset == Max(0, Len(model.lines) - model.height)
  IN [model EXCEPT !.yOffset = Min(maxOffset, model.yOffset + amount)]

scrollLeft(model, cols) ==
  LET amount == orElse(cols, model.xScrollSpeed)
  IN [model EXCEPT !.xOffset = Max(0, model.xOffset - amount)]

\* model.lines.reduce((max, line) => Math.max(max, line.length), 0)
RECURSIVE reduceMaxWidth(_, _)
reduceMaxWidth(lines, max) ==
  IF Len(lines) = 0
  THEN max
  ELSE reduceMaxWidth(Tail(lines), Max(max, Len(Head(lines))))

scrollRight(model, cols) ==
  LET amount == orElse(cols, model.xScrollSpeed)
      maxWidth == reduceMaxWidth(model.lines, 0)
      effectiveWidth == IF model.width > 0 THEN model.width ELSE maxWidth
      maxOffset == Max(0, maxWidth - effectiveWidth)
  IN [model EXCEPT !.xOffset = Min(maxOffset, model.xOffset + amount)]

scrollToTop(model) == [model EXCEPT !.yOffset = 0]

scrollToBottom(model) ==
  LET maxOffset == Max(0, Len(model.lines) - model.height)
  IN [model EXCEPT !.yOffset = maxOffset]

pageUp(model) == scrollUp(model, <<model.height>>)

pageDown(model) == scrollDown(model, <<model.height>>)

halfPageUp(model) == scrollUp(model, <<model.height \div 2>>)

halfPageDown(model) == scrollDown(model, <<model.height \div 2>>)

scrollToLine(model, line) ==
  LET maxOffset == Max(0, Len(model.lines) - model.height)
      targetOffset == Max(0, Min(maxOffset, line))
  IN [model EXCEPT !.yOffset = targetOffset]

scrollToCenter(model, line) ==
  LET targetOffset == Max(0, line - (model.height \div 2))
  IN scrollToLine(model, targetOffset)

(* ------------------------------ Viewport: view ------------------------- *)

\* Array.prototype.slice and String.prototype.slice: a negative index counts
\* from the end
sliceIndex(len, index) ==
  IF index < 0 THEN Max(len + index, 0) ELSE Min(index, len)

slice(s, start, end) ==
  SubSeq(s, sliceIndex(Len(s), start) + 1, sliceIndex(Len(s), end))

getVisibleLines(model) ==
  slice(model.lines, model.yOffset, model.yOffset + model.height)

\* the body of visibleLines.map in view
processLine(model, line) ==
  LET shifted == IF model.xOffset > 0
                 THEN slice(line, model.xOffset, Len(line))
                 ELSE line
  IN IF model.width > 0 /\ Len(shifted) > model.width
     THEN slice(shifted, 0, model.width)
     ELSE shifted

\* while (processedLines.length < model.height) processedLines.push('')
padToHeight(processedLines, height) ==
  processedLines
    \o [i \in 1..(height - Len(processedLines)) |-> << >>]

Viewport_view(model) ==
  LET visibleLines == getVisibleLines(model)
      processedLines == [i \in 1..Len(visibleLines) |->
                           processLine(model, visibleLines[i])]
  IN join(padToHeight(processedLines, model.height), <<"\n">>)

(* ------------------------------ TextInput ------------------------------ *)

MaxValueLength == 3

\* the characters of values: a word character and a whitespace character
Chars == {"a", " "}

Strings(n) == UNION {[1..k -> Chars] : k \in 0..n}

Values == Strings(MaxValueLength)

\* the strings passed to setValue: empty, short, and longer than any value
NewValues ==
  { << >>, <<"a", " ">>, <<" ", "a", " ">>,
    [i \in 1..(MaxValueLength + 1) |-> "a"] }

\* the strings passed to insert: none, one and two characters
Inserts == {<< >>, <<"a">>, <<" ">>, <<" ", "a">>}

\* value[i] with i counted from 0; outside the string it is undefined
charAt(value, i) ==
  IF i >= 0 /\ i < Len(value) THEN value[i + 1] ELSE "undefined"

\* /\s/.test(c); undefined is tested as the text "undefined"
isSpace(c) == c \in {" ", "\t", "\n"}

\* mask: null is << >>, the mask string m is <<m>>
NullMask == << >>

MaskOf(m) == <<m>>

DefaultCursorChar == <<"|">>

TextInputOptions(value, maxLength) ==
  [ value |-> value, placeholder |-> << >>, maxLength |-> maxLength,
    mask |-> NullMask, showCharCount |-> FALSE, width |-> 0,
    prompt |-> << >>, cursor |-> DefaultCursorChar ]

createTextInput(options) ==
  [ value |-> options.value,
    cursor |-> Len(options.value),
    placeholder |-> options.placeholder,
    maxLength |-> options.maxLength,
    mask |-> options.mask,
    showCharCount |-> options.showCharCount,
    width |-> options.width,
    prompt |-> options.prompt,
    cursorChar |-> options.cursor,
    focused |-> TRUE ]

setValue(model, value) ==
  LET newValue == IF model.maxLength > 0 /\ Len(value) > model.maxLength
                  THEN slice(value, 0, model.maxLength)
                  ELSE value
  IN [model EXCEPT !.value = newValue,
                   !.cursor = Min(model.cursor, Len(newValue))]

focus(model) == [model EXCEPT !.focused = TRUE]

blur(model) == [model EXCEPT !.focused = FALSE]

setCursor(model, position) ==
  [model EXCEPT !.cursor = Max(0, Min(position, Len(model.value)))]

cursorLeft(model) == setCursor(model, model.cursor - 1)

cursorRight(model) == setCursor(model, model.cursor + 1)

cursorStart(model) == setCursor(model, 0)

cursorEnd(model) == setCursor(model, Len(model.value))

\* insert without the early return at maxLength
insertNoGuard(model, char) ==
  LET before == slice(model.value, 0, model.cursor)
      after == slice(model.value, model.cursor, Len(model.value))
      joined == before \o char \o after
      newValue == IF model.maxLength > 0 /\ Len(joined) > model.maxLength
                  THEN slice(joined, 0, model.maxLength)
                  ELSE joined
  IN [model EXCEPT !.value = newValue,
                   !.cursor = model.cursor + Len(char)]

insert(model, char) ==
  IF model.maxLength > 0 /\ Len(model.value) >= model.maxLength
  THEN model
  ELSE LET before == slice(model.value, 0, model.cursor)
           after == slice(model.value, model.cursor, Len(model.value))
           joined == before \o char \o after
           newValue == IF model.maxLength > 0 /\ Len(joined) > model.maxLength
                       THEN slice(joined, 0, model.maxLength)
                       ELSE joined
       IN [model EXCEPT !.value = newValue,
                        !.cursor = model.cursor + Len(char)]

\* backspace that removes the character at the cursor, not the one before it
backspaceMutant(model) ==
  IF model.cursor = 0
  THEN model
  ELSE LET before == slice(model.value, 0, model.cursor)
           after == slice(model.value, model.cursor + 1, Len(model.value))
       IN [model EXCEPT !.value = before \o after,
                        !.cursor = model.cursor - 1]

backspace(model) ==
  IF model.cursor = 0
  THEN model
  ELSE LET before == slice(model.value, 0, model.cursor - 1)
           after == slice(model.value, model.cursor, Len(model.value))
       IN [model EXCEPT !.value = before \o after,
                        !.cursor = model.cursor - 1]

deleteChar(model) ==
  IF model.cursor = Len(model.value)
  THEN model
  ELSE LET before == slice(model.value, 0, model.cursor)
           after == slice(model.value, model.cursor + 1, Len(model.value))
       IN [model EXCEPT !.value = before \o after]

\* deleteWordBackward without the loop over trailing whitespace
skipSpaceBackwardMutant(before, i) == i

\* while (i >= 0 && /\s/.test(before[i])) i--
RECURSIVE skipSpaceBackward(_, _)
skipSpaceBackward(before, i) ==
  IF i >= 0 /\ isSpace(charAt(before, i))
  THEN skipSpaceBackward(before, i - 1)
  ELSE i

\* while (i >= 0 && !/\s/.test(before[i])) i--
RECURSIVE skipWordBackward(_, _)
skipWordBackward(before, i) ==
  IF i >= 0 /\ ~isSpace(charAt(before, i))
  THEN skipWordBackward(before, i - 1)
  ELSE i

deleteWordBackward(model) ==
  IF model.cursor = 0
  THEN model
  ELSE LET before == slice(model.value, 0, model.cursor)
           after == slice(model.value, model.cursor, Len(model.value))
           i == skipWordBackward(before,
                                 skipSpaceBackward(before, Len(before) - 1))
       IN [model EXCEPT !.value = slice(before, 0, i + 1) \o after,
                        !.cursor = i + 1]

deleteToEnd(model) ==
  [model EXCEPT !.value = slice(model.value, 0, model.cursor)]

deleteToStart(model) ==
  [model EXCEPT !.value = slice(model.value, model.cursor, Len(model.value)),
                !.cursor = 0]

clear(model) == [model EXCEPT !.value = << >>, !.cursor = 0]

\* while (i > 0 && /\s/.test(model.value[i])) i--
RECURSIVE wordLeftSkipSpace(_, _)
wordLeftSkipSpace(value, i) ==
  IF i > 0 /\ isSpace(charAt(value, i))
  THEN wordLeftSkipSpace(value, i - 1)
  ELSE i

\* the word loop of wordLeft testing value[i] instead of value[i - 1]
RECURSIVE wordLeftSkipWordMutant(_, _)
wordLeftSkipWordMutant(value, i) ==
  IF i > 0 /\ ~isSpace(charAt(value, i))
  THEN wordLeftSkipWordMutant(value, i - 1)
  ELSE i

\* while (i > 0 && !/\s/.test(model.value[i - 1])) i--
RECURSIVE wordLeftSkipWord(_, _)
wordLeftSkipWord(value, i) ==
  IF i > 0 /\ ~isSpace(charAt(value, i - 1))
  THEN wordLeftSkipWord(value, i - 1)
  ELSE i

wordLeft(model) ==
  IF model.cursor = 0
  THEN model
  ELSE setCursor(model,
                 wordLeftSkipWord(model.value,
                                  wordLeftSkipSpace(model.value,
                                                    model.cursor - 1)))

\* while (i < model.value.length && !/\s/.test(model.value[i])) i++
RECURSIVE wordRightSkipWord(_, _)
wordRightSkipWord(value, i) ==
  IF i < Len(value) /\ ~isSpace(charAt(value, i))
  THEN wordRightSkipWord(value, i + 1)
  ELSE i

\* while (i < model.value.length && /\s/.test(model.value[i])) i++
RECURSIVE wordRightSkipSpace(_, _)
wordRightSkipSpace(value, i) ==
  IF i < Len(value) /\ isSpace(charAt(value, i))
  THEN wordRightSkipSpace(value, i + 1)
  ELSE i

wordRight(model) ==
  IF model.cursor = Len(model.value)
  THEN model
  ELSE setCursor(model,
                 wordRightSkipSpace(model.value,
                                    wordRightSkipWord(model.value,
                                                      model.cursor)))

(* ------------------------------ TextInput: view ------------------------ *)

\* the decimal digits of a number, as a template literal prints it
RECURSIVE toString(_)
toString(n) ==
  LET digit == <<"0", "1", "2", "3", "4", "5", "6", "7", "8", "9">>[(n % 10) + 1]
  IN IF n < 10 THEN <<digit>> ELSE Append(toString(n \div 10), digit)

\* String.prototype.repeat throws on a negative count
RangeError == <<"RangeError">>

\* model.mask ? ... : ...   (null and '' are falsy)
maskIsTruthy(model) == model.mask # NullMask /\ model.mask[1] # << >>

\* the value as displayed, before the cursor is inserted
maskedValue(model) ==
  LET shown == IF model.mask # NullMask
               THEN repeat(model.mask[1], Len(model.value))
               ELSE model.value
  IN IF Len(shown) = 0 /\ model.placeholder # << >> /\ ~model.focused
     THEN model.placeholder
     ELSE shown

insertCursor(model, displayValue) ==
  IF ~model.focused
  THEN displayValue
  ELSE LET before == IF maskIsTruthy(model)
                     THEN repeat(model.mask[1], model.cursor)
                     ELSE slice(displayValue, 0, model.cursor)
           after == IF maskIsTruthy(model)
                    THEN repeat(model.mask[1], Len(model.value) - model.cursor)
                    ELSE slice(displayValue, model.cursor, Len(displayValue))
       IN before \o model.cursorChar \o after

\* applyWidth sliding by the cursor position without the cursor glyph
applyWidthMutant(model, displayValue) ==
  IF model.width > 0
  THEN IF Len(displayValue) > model.width
       THEN IF model.cursor > model.width
            THEN LET offset == model.cursor - model.width
                 IN slice(displayValue, offset, offset + model.width)
            ELSE slice(displayValue, 0, model.width)
       ELSE padEnd(displayValue, model.width)
  ELSE displayValue

applyWidth(model, displayValue) ==
  IF model.width > 0
  THEN IF Len(displayValue) > model.width
       THEN LET cursorInDisplay ==
                  model.cursor + (IF model.focused THEN 1 ELSE 0)
            IN IF cursorInDisplay > model.width
               THEN LET offset == cursorInDisplay - model.width
                    IN slice(displayValue, offset, offset + model.width)
               ELSE slice(displayValue, 0, model.width)
       ELSE padEnd(displayValue, model.width)
  ELSE displayValue

charCount(model) ==
  IF model.showCharCount /\ model.maxLength > 0
  THEN <<" ">> \o toString(Len(model.value)) \o <<"/">>
         \o toString(model.maxLength)
  ELSE << >>

TextInput_view(model) ==
  IF /\ model.focused
     /\ maskIsTruthy(model)
     /\ Len(model.value) - model.cursor < 0
  THEN RangeError
  ELSE model.prompt
         \o applyWidth(model, insertCursor(model, maskedValue(model)))
         \o charCount(model)

\* the options of the specification of rendering: width, mask, prompt,
\* showCharCount, maxLength and placeholder as they are passed together
Styles ==
  { [width |-> 0, mask |-> NullMask, prompt |-> << >>,
     showCharCount |-> FALSE, maxLength |-> 0, placeholder |-> << >>],
    [width |-> 2, mask |-> NullMask, prompt |-> <<">", " ">>,
     showCharCount |-> TRUE, maxLength |-> 2, placeholder |-> <<"p">>],
    [width |-> 2, mask |-> MaskOf(<<"*">>), prompt |-> << >>,
     showCharCount |-> FALSE, maxLength |-> 0, placeholder |-> << >>],
    [width |-> MaxValueLength + 2, mask |-> NullMask, prompt |-> << >>,
     showCharCount |-> TRUE, maxLength |-> 0, placeholder |-> <<"p">>],
    [width |-> MaxValueLength + 2, mask |-> MaskOf(<<"*">>),
     prompt |-> <<">", " ">>, showCharCount |-> TRUE, maxLength |-> 2,
     placeholder |-> << >>],
    [width |-> 1, mask |-> MaskOf(<< >>), prompt |-> << >>,
     showCharCount |-> FALSE, maxLength |-> 0, placeholder |-> << >>] }

StyledOptions(value, style) ==
  [ value |-> value, placeholder |-> style.placeholder,
    maxLength |-> style.maxLength, mask |-> style.mask,
    showCharCount |-> style.showCharCount, width |-> style.width,
    prompt |-> style.prompt, cursor |-> DefaultCursorChar ]

(* ------------------------------ Timer ---------------------------------- *)

MaxTime == 5

\* Date.now() is a positive number of milliseconds
Times == 1..MaxTime

\* a timestamp: null is << >>, the time t is <<t>>
Null == << >>

At(t) == <<t>>

\* model.startTime ? ... : ...   (null and 0 are falsy)
isTruthy(time) == time # Null /\ time[1] # 0

TimerModes == {"countdown", "stopwatch"}

TimerStates == {"idle", "running", "paused", "finished"}

Durations == {0, 2, 3}

TimerOptions(mode, duration, elapsed, autoStart) ==
  [mode |-> mode, duration |-> duration, elapsed |-> elapsed,
   autoStart |-> autoStart]

\* start without the early return on a finished timer
startMutant(model, dateNow) ==
  IF model.state = "running"
  THEN model
  ELSE [model EXCEPT !.state = "running",
                     !.startTime = At(dateNow),
                     !.pauseTime = Null]

start(model, dateNow) ==
  IF model.state = "running" THEN model
  ELSE IF model.state = "finished" THEN model
  ELSE [model EXCEPT !.state = "running",
                     !.startTime = At(dateNow),
                     !.pauseTime = Null]

createTimer(options, dateNow) ==
  LET model == [ mode |-> options.mode,
                 duration |-> options.duration,
                 elapsed |-> options.elapsed,
                 state |-> "idle",
                 startTime |-> Null,
                 pauseTime |-> Null ]
  IN IF options.autoStart THEN start(model, dateNow) ELSE model

createCountdown(durationMs, autoStart, dateNow) ==
  createTimer(TimerOptions("countdown", durationMs, 0, autoStart), dateNow)

createStopwatch(autoStart, dateNow) ==
  createTimer(TimerOptions("stopwatch", 0, 0, autoStart), dateNow)

\* pause keeping the accumulated time as it was
pauseMutant(model, dateNow) ==
  IF model.state # "running"
  THEN model
  ELSE [model EXCEPT !.state = "paused",
                     !.startTime = Null,
                     !.pauseTime = At(dateNow)]

pause(model, dateNow) ==
  IF model.state # "running"
  THEN model
  ELSE LET additionalElapsed == IF isTruthy(model.startTime)
                                THEN dateNow - model.startTime[1]
                                ELSE 0
       IN [model EXCEPT !.state = "paused",
                        !.elapsed = model.elapsed + additionalElapsed,
                        !.startTime = Null,
                        !.pauseTime = At(dateNow)]

\* resume that keeps the pause timestamp
resumeMutant(model, dateNow) ==
  IF model.state # "paused"
  THEN model
  ELSE [model EXCEPT !.state = "running",
                     !.startTime = At(dateNow)]

resume(model, dateNow) ==
  IF model.state # "paused"
  THEN model
  ELSE [model EXCEPT !.state = "running",
                     !.startTime = At(dateNow),
                     !.pauseTime = Null]

toggle(model, dateNow) ==
  CASE model.state = "idle" -> start(model, dateNow)
    [] model.state = "running" -> pause(model, dateNow)
    [] model.state = "paused" -> resume(model, dateNow)
    [] model.state = "finished" -> model

stop(model) ==
  [model EXCEPT !.state = "idle",
                !.elapsed = 0,
                !.startTime = Null,
                !.pauseTime = Null]

\* reset going to idle from every state
resetMutant(model, dateNow) ==
  [model EXCEPT !.elapsed = 0,
                !.startTime = Null,
                !.pauseTime = Null,
                !.state = "idle"]

reset(model, dateNow) ==
  LET wasRunning == model.state = "running"
  IN [model EXCEPT !.elapsed = 0,
                   !.startTime = IF wasRunning THEN At(dateNow) ELSE Null,
                   !.pauseTime = Null,
                   !.state = IF wasRunning THEN "running" ELSE "idle"]

\* tick finishing without pinning elapsed to duration
tickMutant(model, dateNow) ==
  IF model.state # "running"
  THEN model
  ELSE LET totalElapsed ==
             model.elapsed + (IF isTruthy(model.startTime)
                              THEN dateNow - model.startTime[1]
                              ELSE 0)
       IN IF model.mode = "countdown" /\ totalElapsed >= model.duration
          THEN [model EXCEPT !.state = "finished",
                             !.elapsed = totalElapsed,
                             !.startTime = Null]
          ELSE model

tick(model, dateNow) ==
  IF model.state # "running"
  THEN model
  ELSE LET totalElapsed ==
             model.elapsed + (IF isTruthy(model.startTime)
                              THEN dateNow - model.startTime[1]
                              ELSE 0)
       IN IF model.mode = "countdown" /\ totalElapsed >= model.duration
          THEN [model EXCEPT !.state = "finished",
                             !.elapsed = model.duration,
                             !.startTime = Null]
          ELSE model

getElapsed(model, dateNow) ==
  IF model.state = "running" /\ isTruthy(model.startTime)
  THEN model.elapsed + (dateNow - model.startTime[1])
  ELSE model.elapsed

TimerOp(name, dateNow) == [name |-> name, now |-> dateNow]

\* the time the timer has spent running since it was created, next to the
\* elapsed time it was created with
Since(initialElapsed, timeRunning) ==
  [initialElapsed |-> initialElapsed, timeRunning |-> timeRunning]

(***************************************************************************)
(* Help widget (help.ts, held in src/src/viewport.ts after the TextInput   *)
(* tests).  A binding is a record of a key and a description, a group a    *)
(* record of an optional title and its bindings.  An option that is not    *)
(* passed is << >>, the option x is <<x>>.                                 *)
(***************************************************************************)

(* ------------------------------ Help ----------------------------------- *)

MaxBindings == 4
MaxGroups == 2
MaxColumns == 3

DefaultWidth == 80

DefaultColumnGap == 4

\* ' -> ' with the arrow glyph written as one ASCII character
DefaultSeparator == <<" ", ">", " ">>

KeyBinding(key, description) == [key |-> key, description |-> description]

\* the bindings of the inputs: keys of one and of two characters
KeyJ == KeyBinding(<<"j">>, <<"D">>)

KeyUp == KeyBinding(<<"u", "p">>, <<"U">>)

KeyBindingGroup(title, bindings) == [title |-> title, bindings |-> bindings]

\* arrays of bindings passed to createHelp, addBindings and setBindings
BindingLists == {<< >>, <<KeyJ>>, <<KeyUp, KeyJ>>}

\* groups passed to addGroup: without and with a title
Groups ==
  { KeyBindingGroup(<< >>, <<KeyUp>>),
    KeyBindingGroup(<<"N">>, <<KeyJ, KeyUp>>) }

\* arrays of groups passed to createHelp and setGroups
GroupLists ==
  {<< >>} \cup {<<g>> : g \in Groups}
    \cup {<<KeyBindingGroup(<< >>, <<KeyJ>>), KeyBindingGroup(<< >>, << >>)>>}

HelpOptions(bindings, groups, columns) ==
  [ bindings |-> bindings, groups |-> groups, width |-> << >>,
    separator |-> << >>, columnGap |-> << >>, columns |-> columns,
    fullScreen |-> << >> ]

createHelp(options) ==
  LET bindings == orElse(options.bindings, << >>)
      groups == orElse(options.groups,
                          IF Len(bindings) > 0
                          THEN <<KeyBindingGroup(<< >>, bindings)>>
                          ELSE << >>)
  IN [ bindings |-> bindings,
       groups |-> groups,
       width |-> orElse(options.width, DefaultWidth),
       separator |-> orElse(options.separator, DefaultSeparator),
       columnGap |-> orElse(options.columnGap, DefaultColumnGap),
       columns |-> orElse(options.columns, 0),
       fullScreen |-> orElse(options.fullScreen, FALSE) ]

addBinding(model, key, description) ==
  [model EXCEPT
     !.bindings = Append(model.bindings, KeyBinding(key, description)),
     !.groups = IF Len(model.groups) = 0
                THEN <<KeyBindingGroup(<< >>,
                         Append(model.bindings, KeyBinding(key, description)))>>
                ELSE model.groups]

addBindings(model, bindings) ==
  [model EXCEPT !.bindings = model.bindings \o bindings]

addGroup(model, group) ==
  [model EXCEPT !.groups = Append(model.groups, group)]

setBindings(model, bindings) ==
  [model EXCEPT !.bindings = bindings,
                !.groups = <<KeyBindingGroup(<< >>, bindings)>>]

\* groups.flatMap(g => g.bindings)
RECURSIVE flatMapBindings(_)
flatMapBindings(groups) ==
  IF Len(groups) = 0 THEN << >>
  ELSE Head(groups).bindings \o flatMapBindings(Tail(groups))

setGroups(model, groups) ==
  [model EXCEPT !.groups = groups,
                !.bindings = flatMapBindings(groups)]

(* ------------------------------ Help: view ----------------------------- *)

\* bindings.reduce((max, b) => Math.max(max, b.key.length), 0)
RECURSIVE getMaxKeyWidth(_)
getMaxKeyWidth(bindings) ==
  IF Len(bindings) = 0 THEN 0
  ELSE Max(Len(bindings[Len(bindings)].key),
           getMaxKeyWidth(SubSeq(bindings, 1, Len(bindings) - 1)))

renderBinding(binding, keyWidth, separator) ==
  padEnd(binding.key, keyWidth) \o separator \o binding.description

\* the estimate of the width of a description
DescriptionEstimate == 20

\* Math.ceil(a / b) for a >= 0 and b > 0
ceilDiv(a, b) == (a + b - 1) \div b

\* the inner loop over the columns of one row
RECURSIVE rowItems(_, _, _, _, _, _, _)
rowItems(bindings, row, col, actualColumns, rowCount, keyWidth, separator) ==
  IF col < actualColumns
  THEN LET index == row + col * rowCount
       IN (IF index < Len(bindings)
           THEN <<renderBinding(bindings[index + 1], keyWidth, separator)>>
           ELSE << >>)
            \o rowItems(bindings, row, col + 1, actualColumns, rowCount,
                        keyWidth, separator)
  ELSE << >>

renderBindingsInColumns(bindings, columns, width, separator, columnGap) ==
  IF Len(bindings) = 0
  THEN << >>
  ELSE LET keyWidth == getMaxKeyWidth(bindings)
           itemWidth == keyWidth + Len(separator) + DescriptionEstimate
           actualColumns ==
             IF columns > 0 THEN columns
             ELSE Max(1, width \div (itemWidth + columnGap))
           rowCount == ceilDiv(Len(bindings), actualColumns)
       IN [r \in 1..rowCount |->
             join(rowItems(bindings, r - 1, 0, actualColumns, rowCount,
                           keyWidth, separator),
                  repeat(<<" ">>, columnGap))]

viewColumns(model) ==
  LET allBindings == flatMapBindings(model.groups)
      lines == renderBindingsInColumns(allBindings, model.columns,
                                       model.width, model.separator,
                                       model.columnGap)
  IN join(lines, <<"\n">>)

(***************************************************************************)
(* Progress widget (src/src/progress.ts).  A number is a record: a finite  *)
(* number x is Finite(100 * x), an exact count of hundredths, and NaN,     *)
(* Infinity and -Infinity are numbers of their own.                        *)
(***************************************************************************)

(* ------------------------------ Progress ------------------------------- *)

Finite(n) == [kind |-> "finite", hundredths |-> n]

NaN == [kind |-> "NaN", hundredths |-> 0]

PlusInfinity == [kind |-> "Infinity", hundredths |-> 0]

MinusInfinity == [kind |-> "-Infinity", hundredths |-> 0]

\* a <= b on numbers other than NaN
lessOrEqual(a, b) ==
  \/ a.kind = "-Infinity"
  \/ b.kind = "Infinity"
  \/ a.kind = "finite" /\ b.kind = "finite" /\ a.hundredths <= b.hundredths

\* Math.min and Math.max return NaN when an argument is NaN
MathMin(a, b) ==
  IF a.kind = "NaN" \/ b.kind = "NaN" THEN NaN
  ELSE IF lessOrEqual(a, b) THEN a ELSE b

MathMax(a, b) ==
  IF a.kind = "NaN" \/ b.kind = "NaN" THEN NaN
  ELSE IF lessOrEqual(a, b) THEN b ELSE a

\* -a
negate(a) ==
  CASE a.kind = "finite" -> Finite(-a.hundredths)
    [] a.kind = "Infinity" -> MinusInfinity
    [] a.kind = "-Infinity" -> PlusInfinity
    [] OTHER -> NaN

\* a + b
plus(a, b) ==
  CASE a.kind = "NaN" \/ b.kind = "NaN" -> NaN
    [] a.kind = "finite" /\ b.kind = "finite" ->
         Finite(a.hundredths + b.hundredths)
    [] a.kind = "finite" -> b
    [] b.kind = "finite" -> a
    [] a.kind = b.kind -> a
    [] OTHER -> NaN

\* percent / 100, exact on the whole percentages of the inputs
dividedBy100(a) ==
  IF a.kind = "finite" THEN Finite(a.hundredths \div 100) ELSE a

\* ProgressStyles.default with its glyphs written in ASCII
DefaultChars == [full |-> <<"#">>, empty |-> <<".">>]

\* the options of createProgress that are passed: width
ProgressOptions(width) == [width |-> width]

createProgress(options) ==
  [ progress |-> Finite(0),
    width |-> orElse(options.width, 40),
    chars |-> DefaultChars,
    showPercent |-> TRUE,
    formatPercent |-> "defaultFormatPercent",
    leftBracket |-> << >>,
    rightBracket |-> << >> ]

setProgress(model, value) ==
  [model EXCEPT !.progress = MathMax(Finite(0), MathMin(Finite(100), value))]

setPercent(model, percent) == setProgress(model, dividedBy100(percent))

\* the amount increment and decrement default to: 0.01
DefaultAmount == Finite(1)

increment(model, amount) ==
  setProgress(model, plus(model.progress, orElse(amount, DefaultAmount)))

decrement(model, amount) ==
  setProgress(model,
              plus(model.progress, negate(orElse(amount, DefaultAmount))))

Progress_reset(model) == setProgress(model, Finite(0))

complete(model) == setProgress(model, Finite(100))

\* the numbers passed to set: -0.5, 0, 0.25, 1, 1.5 and the three that are
\* not finite
ProgressValues ==
  { Finite(-50), Finite(0), Finite(25), Finite(100), Finite(150),
    NaN, PlusInfinity, MinusInfinity }

\* the numbers passed to setPercent: -50, 50, 150 and NaN
Percents == {Finite(-5000), Finite(5000), Finite(15000), NaN}

\* the amounts passed to increment and decrement: none, 0.5, -0.25, and two
\* that are not finite
ProgressAmounts ==
  {<< >>, <<Finite(50)>>, <<Finite(-25)>>, <<NaN>>, <<PlusInfinity>>}

(* ------------------------------ List: view ----------------------------- *)

\* reading a property of undefined throws
TypeError == <<"TypeError">>

DisabledSuffix == <<" ", "(", "d", "i", "s", "a", "b", "l", "e", "d", ")">>

\* item.description is set and not empty
hasDescription(item) ==
  "description" \in DOMAIN item /\ item.description # << >>

\* the lines pushed for index i: the item line and, with showDescriptions,
\* the description line
itemLines(model, i) ==
  LET item == model.items[i + 1]
      isSelected == i = model.selected
      cursor == IF isSelected THEN model.cursor ELSE model.uncursor
      line == cursor \o item.title
                \o (IF item.disabled THEN DisabledSuffix ELSE << >>)
  IN IF model.showDescriptions /\ hasDescription(item)
     THEN <<line, model.uncursor \o <<" ", " ">> \o item.description>>
     ELSE <<line>>

\* for (let i = visibleStart; i < visibleEnd; i++)
RECURSIVE viewLoop(_, _, _)
viewLoop(model, i, visibleEnd) ==
  IF i < visibleEnd
  THEN itemLines(model, i) \o viewLoop(model, i + 1, visibleEnd)
  ELSE << >>

List_view(model) ==
  IF Len(model.items) = 0
  THEN << >>
  ELSE LET visibleStart == model.offset
           visibleEnd == IF model.height > 0
                         THEN Min(model.offset + model.height, Len(model.items))
                         ELSE Len(model.items)
       IN IF \E i \in visibleStart..(visibleEnd - 1) :
               i \notin 0..(Len(model.items) - 1)
          THEN TypeError
          ELSE join(viewLoop(model, visibleStart, visibleEnd), <<"\n">>)

(* ------------------------------ state machine -------------------------- *)

\* the last call: its name and its arguments (index of select, direction of
\* moveByPage, items of setItems)
Op(name, index, direction, items) ==
  [name |-> name, index |-> index, direction |-> direction, items |-> items]

\* the variables of the other widgets
NotList == <<table, viewport, textInput, timer, now, since, help, progress>>

NotTable ==
  <<list, loop, viewport, textInput, timer, now, since, help, progress>>

NotViewport ==
  <<list, input, lastOp, loop, table, textInput, timer, now, since, help,
    progress>>

NotTextInput ==
  <<list, loop, table, viewport, timer, now, since, help, progress>>

NotTimer == <<list, loop, table, viewport, textInput, help, progress>>

NotHelp ==
  <<list, input, lastOp, loop, table, viewport, textInput, timer, now, since,
    progress>>

NotProgress ==
  <<list, loop, table, viewport, textInput, timer, now, since, help>>

\* the widgets a specification does not drive stay as created
NoList == createList(<< >>, 0, 0, TRUE)

NoTable == createTable(DefaultOptions(<< >>))

NoViewport == createViewport(ViewportOptions(<< >>, 0, DefaultHeight))

NoTextInput == createTextInput(TextInputOptions(<< >>, 0))

\* no timer is used: a stopwatch created and left idle
NoTimer ==
  /\ now = 1
  /\ timer = createStopwatch(FALSE, now)
  /\ since = Since(0, 0)

NoHelp == createHelp(HelpOptions(<< >>, << >>, << >>))

NoProgress == createProgress(ProgressOptions(<< >>))

Init ==
  /\ \E items \in ItemLists, selected \in (-1)..(MaxItems + 1),
        height \in 0..MaxHeight, wrap \in BOOLEAN :
       list = createList(items, selected, height, wrap)
  /\ input = list
  /\ lastOp = Op("createList", 0, "none", << >>)
  /\ loop = NoLoop
  /\ table = NoTable
  /\ viewport = NoViewport
  /\ textInput = NoTextInput
  /\ NoTimer
  /\ help = NoHelp
  /\ progress = NoProgress

MoveUp ==
  /\ list' = moveUp(list)
  /\ input' = list
  /\ lastOp' = Op("moveUp", 0, "none", << >>)
  /\ loop' = IF Len(list.items) = 0 THEN NoLoop ELSE LoopInfo(moveUpSkip(list))
  /\ UNCHANGED NotList

MoveDown ==
  /\ list' = moveDown(list)
  /\ input' = list
  /\ lastOp' = Op("moveDown", 0, "none", << >>)
  /\ loop' = IF Len(list.items) = 0 THEN NoLoop ELSE LoopInfo(moveDownSkip(list))
  /\ UNCHANGED NotList

MoveToStart ==
  /\ list' = moveToStart(list)
  /\ input' = list
  /\ lastOp' = Op("moveToStart", 0, "none", << >>)
  /\ loop' = IF Len(list.items) = 0 THEN NoLoop
             ELSE LoopInfo(moveToStartSkip(list))
  /\ UNCHANGED NotList

MoveToEnd ==
  /\ list' = moveToEnd(list)
  /\ input' = list
  /\ lastOp' = Op("moveToEnd", 0, "none", << >>)
  /\ loop' = IF Len(list.items) = 0 THEN NoLoop
             ELSE LoopInfo(moveToEndSkip(list))
  /\ UNCHANGED NotList

MoveByPage ==
  \E direction \in Directions :
    /\ list' = moveByPage(list, direction)
    /\ input' = list
    /\ lastOp' = Op("moveByPage", 0, direction, << >>)
    /\ loop' = IF Len(list.items) = 0 THEN NoLoop
               ELSE LoopInfo(moveByPageSkip(list, direction))
    /\ UNCHANGED NotList

Select ==
  \E index \in (-1)..MaxItems :
    /\ list' = select(list, index)
    /\ input' = list
    /\ lastOp' = Op("select", index, "none", << >>)
    /\ loop' = NoLoop
    /\ UNCHANGED NotList

SetItems ==
  \E items \in NewItemLists :
    /\ list' = setItems(list, items)
    /\ input' = list
    /\ lastOp' = Op("setItems", 0, "none", items)
    /\ loop' = NoLoop
    /\ UNCHANGED NotList

Filter ==
  \E accepted \in Predicates :
    /\ list' = filter(list, accepted)
    /\ input' = list
    /\ lastOp' = Op("filter", 0, "none", << >>)
    /\ loop' = NoLoop
    /\ UNCHANGED NotList

FilterByTitle ==
  \E query \in Queries :
    /\ list' = filterByTitle(list, query)
    /\ input' = list
    /\ lastOp' = Op("filterByTitle", 0, "none", << >>)
    /\ loop' = NoLoop
    /\ UNCHANGED NotList

Navigate ==
  \/ MoveUp
  \/ MoveDown
  \/ MoveToStart
  \/ MoveToEnd
  \/ MoveByPage
  \/ Select

Next ==
  \/ MoveUp
  \/ MoveDown
  \/ MoveToStart
  \/ MoveToEnd
  \/ MoveByPage
  \/ Select
  \/ SetItems
  \/ Filter
  \/ FilterByTitle

\* every List operation
Spec == Init /\ [][Next]_vars

\* createList followed by navigation calls only
SpecNav == Init /\ [][Navigate]_vars

(* ------------------------------ Table: state machine ------------------- *)

\* the last Table call: its name and its arguments (index of selectRow,
\* rows of setRows)
TableOp(name, index, rows) == [name |-> name, index |-> index, rows |-> rows]

\* createTable with any columns, rows, selected and selectable
InitTable ==
  /\ \E columns \in TableColumnLists, rows \in RowLists,
        selected \in (-2)..MaxRows, selectable \in BOOLEAN :
       table = createTable([DefaultOptions(columns) EXCEPT
                              !.rows = rows,
                              !.selected = selected,
                              !.selectable = selectable])
  /\ input = table
  /\ lastOp = TableOp("createTable", 0, table.rows)
  /\ list = NoList
  /\ loop = NoLoop
  /\ viewport = NoViewport
  /\ textInput = NoTextInput
  /\ NoTimer
  /\ help = NoHelp
  /\ progress = NoProgress

\* createTable with any border and rendering options
InitTableView ==
  /\ \E columns \in ViewColumnLists, rows \in RowLists,
        border \in ViewBorders, flags \in ViewFlags,
        selected \in (-1)..0, selectable \in BOOLEAN :
       table = createTable(TableOptions(columns, rows, border, flags[1],
                                        flags[2], flags[3],
                                        selected, selectable))
  /\ input = table
  /\ lastOp = TableOp("createTable", 0, table.rows)
  /\ list = NoList
  /\ loop = NoLoop
  /\ viewport = NoViewport
  /\ textInput = NoTextInput
  /\ NoTimer
  /\ help = NoHelp
  /\ progress = NoProgress

SetRows ==
  \E rows \in RowLists :
    /\ table' = setRows(table, rows)
    /\ input' = table
    /\ lastOp' = TableOp("setRows", 0, rows)
    /\ UNCHANGED NotTable

SelectRow ==
  \E index \in (-2)..(MaxRows + 1) :
    /\ table' = selectRow(table, index)
    /\ input' = table
    /\ lastOp' = TableOp("selectRow", index, << >>)
    /\ UNCHANGED NotTable

TableMoveUp ==
  /\ table' = Table_moveUp(table)
  /\ input' = table
  /\ lastOp' = TableOp("moveUp", 0, << >>)
  /\ UNCHANGED NotTable

TableMoveDown ==
  /\ table' = Table_moveDown(table)
  /\ input' = table
  /\ lastOp' = TableOp("moveDown", 0, << >>)
  /\ UNCHANGED NotTable

NextTable ==
  \/ SetRows
  \/ SelectRow
  \/ TableMoveUp
  \/ TableMoveDown

\* every Table transition, from createTable with default rendering options
SpecTable == InitTable /\ [][NextTable]_vars

\* every Table transition, from createTable with any rendering options
SpecTableView == InitTableView /\ [][NextTable]_vars

(* ------------------------------ Table: properties ---------------------- *)

RowCount(model) == Len(model.rows)

\* C11: from createTable with any options.selected, through setRows,
\* selectRow, moveUp and moveDown, -1 <= selected <= rows.length - 1.
C11_TableSelectedInRange ==
  /\ table.selected >= -1
  /\ table.selected <= RowCount(table) - 1

\* the greatest element of a non-empty set of numbers
Greatest(S) == CHOOSE x \in S : \A y \in S : y <= x

\* lengths of the title and of every formatted cell of a column
ContentLengths(col, rows) ==
  {Len(col.title)} \cup {Len(formatted(rows[r], col)) : r \in 1..Len(rows)}

\* C12: after createTable and after setRows, a column with a fixed width has
\* that width; any other column has the greatest of its title length and its
\* formatted cell lengths, raised to minWidth when given and then lowered to
\* maxWidth when given.
C12_ColumnWidths ==
  \A i \in 1..Len(table.columns) :
    LET col == table.columns[i]
        content == Greatest(ContentLengths(col, table.rows))
        raised == IF col.minWidth > 0 /\ content < col.minWidth
                  THEN col.minWidth
                  ELSE content
        lowered == IF col.maxWidth > 0 /\ raised > col.maxWidth
                   THEN col.maxWidth
                   ELSE raised
    IN table.columnWidths[i] = (IF col.width > 0 THEN col.width ELSE lowered)

\* setRows gave a fixed width narrower than a cell, and a content-driven
\* width to the formatted second column
C12_Witness ==
  /\ lastOp.name = "setRows"
  /\ Len(table.columns) = 2
  /\ table.columns[1].width = 2
  /\ \E r \in 1..RowCount(table) :
       Len(formatted(table.rows[r], table.columns[1])) = 3
  /\ table.columnWidths = <<2, 3>>

\* C13: on a selectable table with N >= 1 rows moveUp gives N-1 from
\* selected <= 0 and selected-1 otherwise, moveDown gives 0 from
\* selected >= N-1 and selected+1 otherwise; on a table that is not
\* selectable or has no rows both return their input.
C13_TableMovesWrap ==
  LET n == RowCount(input)
      s == input.selected
      moves == input.selectable /\ n >= 1
  IN /\ lastOp.name = "moveUp" =>
          IF moves
          THEN table = [input EXCEPT
                          !.selected = IF s <= 0 THEN n - 1 ELSE s - 1]
          ELSE table = input
     /\ lastOp.name = "moveDown" =>
          IF moves
          THEN table = [input EXCEPT
                          !.selected = IF s >= n - 1 THEN 0 ELSE s + 1]
          ELSE table = input

\* moveUp wrapped from the first of two rows to the last
C13_Witness ==
  /\ lastOp.name = "moveUp"
  /\ input.selectable
  /\ RowCount(input) = 2
  /\ input.selected = 0
  /\ table.selected = 1

\* C14: on a table that is not selectable, selectRow with any index, moveUp
\* and moveDown return their input unchanged.
C14_NotSelectableFailsClosed ==
  (lastOp.name \in {"selectRow", "moveUp", "moveDown"} /\ ~input.selectable)
    => table = input

\* values a cell may be lengthened to
LongerValues ==
  {<<"x", "y">>, <<"w", "x", "y", "z">>, <<"v", "w", "x", "y", "z">>}

\* rows with the value of row r under key replaced
WithCell(rows, r, key, value) ==
  [rows EXCEPT ![r] = [k \in DOMAIN rows[r] \cup {key} |->
                         IF k = key THEN value ELSE rows[r][k]]]

\* C15: for a column without a fixed width, lengthening the formatted
\* content of one cell of that column never decreases the column's width
\* after setRows.
C15_WidthMonotone ==
  lastOp.name = "setRows" =>
    \A i \in 1..Len(input.columns), r \in 1..Len(lastOp.rows),
       value \in LongerValues :
      LET col == input.columns[i]
          longer == WithCell(lastOp.rows, r, col.key, value)
      IN ( /\ col.width = 0
           /\ Len(formatted(longer[r], col))
                > Len(formatted(lastOp.rows[r], col)) )
         => setRows(input, longer).columnWidths[i] >= table.columnWidths[i]

\* setRows with two rows on a table that has a column without fixed width
\* whose cells can be lengthened
C15_Witness ==
  /\ lastOp.name = "setRows"
  /\ Len(lastOp.rows) = 2
  /\ Len(input.columns) = 2
  /\ input.columns[1].width = 0
  /\ input.columns[1].maxWidth = 0
  /\ table.columnWidths[1] = 3
  /\ "name" \notin DOMAIN lastOp.rows[2]

\* C16: setRows on a table created with any earlier rows gives the column
\* widths createTable gives for the same columns and rows, one per column.
C16_WidthsRecomputed ==
  lastOp.name = "setRows" =>
    /\ table.columnWidths =
         createTable([DefaultOptions(input.columns) EXCEPT
                        !.rows = lastOp.rows]).columnWidths
    /\ Len(table.columnWidths) = Len(table.columns)

\* setRows replaced rows that had given other widths, under a maxWidth
C16_Witness ==
  /\ lastOp.name = "setRows"
  /\ Len(table.columns) = 2
  /\ table.columns[1].maxWidth = 1
  /\ table.columns[1].width = 0
  /\ table.columnWidths # input.columnWidths

NewLine == <<"\n">>

\* a border line has no characters
EmptyLine(model, left, mid, right, glyph) ==
  \/ glyph = << >>
  \/ /\ left = << >>
     /\ right = << >>
     /\ \A i \in 1..Len(model.columnWidths) :
          model.columnWidths[i] + 2 * model.padding = 0
     /\ (Len(model.columnWidths) <= 1 \/ mid = << >>)

Optional(present, line) == IF present THEN <<line>> ELSE << >>

HeaderLine(model) ==
  renderRow(model,
            [i \in 1..Len(model.columns) |-> model.columns[i].title], FALSE)

DataLines(model) ==
  [r \in 1..Len(model.rows) |->
     renderRow(model,
               [i \in 1..Len(model.columns) |->
                  formatted(model.rows[r], model.columns[i])],
               model.selected = r - 1)]

TopLine(model) ==
  renderBorderLine(model, model.border.topLeft, model.border.topMid,
                   model.border.topRight, model.border.top)

SeparatorLine(model) ==
  renderBorderLine(model, model.border.midLeft, model.border.midMid,
                   model.border.midRight, model.border.mid)

BottomLine(model) ==
  renderBorderLine(model, model.border.bottomLeft, model.border.bottomMid,
                   model.border.bottomRight, model.border.bottom)

\* C17 as stated: view is, top to bottom, a top border line unless the
\* border's horizontal glyph is empty, the header row if showHeader, a
\* separator line if showHeader and showHeaderSeparator, one line per data
\* row in row order, and a bottom border line on the condition of the top.
C17_Original ==
  Table_view(table) =
    join(Optional(table.border.horizontal # << >>, TopLine(table))
           \o Optional(table.showHeader, HeaderLine(table))
           \o Optional(table.showHeader /\ table.showHeaderSeparator,
                       SeparatorLine(table))
           \o DataLines(table)
           \o Optional(table.border.horizontal # << >>, BottomLine(table)),
         NewLine)

\* C17 amended: each of the three border lines is skipped exactly when it
\* has no characters, which is when its own glyph (border.top, border.mid,
\* border.bottom) is empty or when there is nothing to draw; the separator
\* also needs showHeader and showHeaderSeparator.
C17_ViewComposition ==
  LET b == table.border
  IN Table_view(table) =
       join(Optional(~EmptyLine(table, b.topLeft, b.topMid, b.topRight, b.top),
                     TopLine(table))
              \o Optional(table.showHeader, HeaderLine(table))
              \o Optional(/\ table.showHeader
                          /\ table.showHeaderSeparator
                          /\ ~EmptyLine(table, b.midLeft, b.midMid,
                                        b.midRight, b.mid),
                          SeparatorLine(table))
              \o DataLines(table)
              \o Optional(~EmptyLine(table, b.bottomLeft, b.bottomMid,
                                     b.bottomRight, b.bottom),
                          BottomLine(table)),
            NewLine)

\* a borderless table with header, separator option and two rows renders
\* the header and the rows only
C17_Witness ==
  /\ table.border = TableBorders.none
  /\ table.showHeader
  /\ table.showHeaderSeparator
  /\ RowCount(table) = 2
  /\ Len(table.columns) = 2
  /\ Len(viewLines(table)) = 3

OneCharPresets ==
  { TableBorders.single, TableBorders.rounded,
    TableBorders.double, TableBorders.thick }

\* C18: with a preset border of one-character glyphs every line of view has
\* the same length.
C18_LinesAligned ==
  table.border \in OneCharPresets =>
    LET lines == split(Table_view(table))
    IN \A i, j \in 1..Len(lines) : Len(lines[i]) = Len(lines[j])

\* n spaces
Spaces(n) == [k \in 1..n |-> " "]

\* the content of a cell laid out in width characters: cut to its first
\* width characters, or padded at the end (left), at the start (right), or
\* on both sides with the smaller half on the left (center)
CellContent(text, width, align) ==
  LET slack == width - Len(text)
  IN IF slack < 0 THEN [k \in 1..width |-> text[k]]
     ELSE IF align = "right" THEN Spaces(slack) \o text
     ELSE IF align = "center"
     THEN Spaces(slack \div 2) \o text \o Spaces(slack - slack \div 2)
     ELSE text \o Spaces(slack)

\* the cells of a row line, each between padding spaces
RowCells(model, cells) ==
  [i \in 1..Len(model.columns) |->
     Spaces(model.padding)
       \o CellContent(cells[i], model.columnWidths[i],
                      IF model.columns[i].align = "undefined"
                      THEN "left" ELSE model.columns[i].align)
       \o Spaces(model.padding)]

\* line is the cells between the edge glyphs, joined by the inner glyph,
\* after the cursor prefix of a selectable table
IsRowOf(model, line, cells) ==
  \E prefix \in {<< >>, <<" ", " ">>, model.cursor \o <<" ">>} :
    line = prefix \o model.border.left
             \o join(cells, model.border.vertical) \o model.border.right

\* line is one segment of columnWidths[i] + 2 * padding glyphs per column
\* between left and right, joined by mid
IsBorderOf(model, line, left, mid, right, glyph) ==
  line = left
           \o join([i \in 1..Len(model.columnWidths) |->
                      [k \in 1..(model.columnWidths[i] + 2 * model.padding)
                         |-> glyph[1]]], mid)
           \o right

\* C36: in view every header and data cell of column i has
\* columnWidths[i] + 2 * padding characters, its content cut to the first
\* columnWidths[i] characters or padded by its alignment (left: at the end,
\* right: at the start, center: floor((width - len) / 2) spaces on the left
\* and the rest on the right), and every border segment of column i has
\* columnWidths[i] + 2 * padding glyphs.
C36_CellWidths ==
  LET lines == viewLines(table)
      b == table.border
      titles == [i \in 1..Len(table.columns) |-> table.columns[i].title]
      texts(r) == [i \in 1..Len(table.columns) |->
                     formatted(table.rows[r], table.columns[i])]
      top == IF TopLine(table) # << >> THEN 1 ELSE 0
      header == IF table.showHeader THEN 1 ELSE 0
      separator == IF /\ table.showHeader
                      /\ table.showHeaderSeparator
                      /\ SeparatorLine(table) # << >>
                   THEN 1 ELSE 0
      first == top + header + separator
  IN /\ \A i \in 1..Len(table.columns) :
          /\ Len(RowCells(table, titles)[i])
               = table.columnWidths[i] + 2 * table.padding
          /\ \A r \in 1..RowCount(table) :
               Len(RowCells(table, texts(r))[i])
                 = table.columnWidths[i] + 2 * table.padding
     /\ table.showHeader =>
          IsRowOf(table, lines[top + 1], RowCells(table, titles))
     /\ \A r \in 1..RowCount(table) :
          IsRowOf(table, lines[first + r], RowCells(table, texts(r)))
     /\ top = 1 =>
          IsBorderOf(table, lines[1], b.topLeft, b.topMid, b.topRight, b.top)
     /\ separator = 1 =>
          IsBorderOf(table, lines[first], b.midLeft, b.midMid, b.midRight,
                     b.mid)
     /\ BottomLine(table) # << >> =>
          IsBorderOf(table, lines[Len(lines)], b.bottomLeft, b.bottomMid,
                     b.bottomRight, b.bottom)

\* a one-character title centred in a column of width 4, under a border line
C36_Witness ==
  /\ Len(table.columns) = 1
  /\ table.columns[1].align = "center"
  /\ table.columnWidths[1] = 4
  /\ table.showHeader
  /\ table.padding = 1
  /\ table.border = TableBorders.rounded
  /\ ~table.selectable
  /\ RowCount(table) = 1
  /\ Len(viewLines(table)) = 5

(* ------------------------------ Viewport: state machine ---------------- *)

\* createViewport with any content, width and height
InitViewport ==
  /\ \E content \in Contents, width \in 0..MaxLineLength,
        height \in 0..MaxLines :
       viewport = createViewport(ViewportOptions(content, width, height))
  /\ list = NoList
  /\ loop = NoLoop
  /\ table = NoTable
  /\ textInput = NoTextInput
  /\ NoTimer
  /\ input = list
  /\ lastOp = Op("createList", 0, "none", << >>)
  /\ help = NoHelp
  /\ progress = NoProgress

\* a run is followed while its offsets are within MaxOffset of 0
Followed(model) ==
  /\ model.xOffset \in (-MaxOffset)..MaxOffset
  /\ model.yOffset \in (-MaxOffset)..MaxOffset

SetContent ==
  \E content \in Contents :
    /\ viewport' = setContent(viewport, content)
    /\ Followed(viewport')
    /\ UNCHANGED NotViewport

SetSize ==
  \E width \in 0..MaxLineLength, height \in 0..MaxLines :
    /\ viewport' = setSize(viewport, width, height)
    /\ Followed(viewport')
    /\ UNCHANGED NotViewport

ScrollUp ==
  \E lines \in Amounts :
    /\ viewport' = scrollUp(viewport, lines)
    /\ Followed(viewport')
    /\ UNCHANGED NotViewport

ScrollDown ==
  \E lines \in Amounts :
    /\ viewport' = scrollDown(viewport, lines)
    /\ Followed(viewport')
    /\ UNCHANGED NotViewport

ScrollLeft ==
  \E cols \in Amounts :
    /\ viewport' = scrollLeft(viewport, cols)
    /\ Followed(viewport')
    /\ UNCHANGED NotViewport

ScrollRight ==
  \E cols \in Amounts :
    /\ viewport' = scrollRight(viewport, cols)
    /\ Followed(viewport')
    /\ UNCHANGED NotViewport

ScrollToTop ==
  /\ viewport' = scrollToTop(viewport)
  /\ Followed(viewport')
  /\ UNCHANGED NotViewport

ScrollToBottom ==
  /\ viewport' = scrollToBottom(viewport)
  /\ Followed(viewport')
  /\ UNCHANGED NotViewport

PageUp ==
  /\ viewport' = pageUp(viewport)
  /\ Followed(viewport')
  /\ UNCHANGED NotViewport

PageDown ==
  /\ viewport' = pageDown(viewport)
  /\ Followed(viewport')
  /\ UNCHANGED NotViewport

HalfPageUp ==
  /\ viewport' = halfPageUp(viewport)
  /\ Followed(viewport')
  /\ UNCHANGED NotViewport

HalfPageDown ==
  /\ viewport' = halfPageDown(viewport)
  /\ Followed(viewport')
  /\ UNCHANGED NotViewport

ScrollToLine ==
  \E line \in (-MaxAmount)..MaxLines :
    /\ viewport' = scrollToLine(viewport, line)
    /\ Followed(viewport')
    /\ UNCHANGED NotViewport

ScrollToCenter ==
  \E line \in (-MaxAmount)..MaxLines :
    /\ viewport' = scrollToCenter(viewport, line)
    /\ Followed(viewport')
    /\ UNCHANGED NotViewport

NextViewport ==
  \/ SetContent
  \/ SetSize
  \/ ScrollUp
  \/ ScrollDown
  \/ ScrollLeft
  \/ ScrollRight
  \/ ScrollToTop
  \/ ScrollToBottom
  \/ PageUp
  \/ PageDown
  \/ HalfPageUp
  \/ HalfPageDown
  \/ ScrollToLine
  \/ ScrollToCenter

SpecViewport == InitViewport /\ [][NextViewport]_vars

(* ------------------------------ Viewport: properties ------------------- *)

\* C19: after any sequence of the vertical scroll operations, setContent and
\* setSize, 0 <= yOffset <= max(0, lines.length - height).
C19_YOffsetClamped ==
  /\ viewport.yOffset >= 0
  /\ viewport.yOffset <= Max(0, Len(viewport.lines) - viewport.height)

LongestLineLength(model) ==
  Greatest({0} \cup {Len(model.lines[i]) : i \in 1..Len(model.lines)})

EffectiveWidth(model) ==
  IF model.width > 0 THEN model.width ELSE LongestLineLength(model)

\* C20: after any sequence of scrollLeft, scrollRight, setContent and
\* setSize, 0 <= xOffset <= max(0, longestLineLength - effectiveWidth).
C20_XOffsetClamped ==
  /\ viewport.xOffset >= 0
  /\ viewport.xOffset
       <= Max(0, LongestLineLength(viewport) - EffectiveWidth(viewport))

\* C21: for height >= 1 view returns exactly height lines: rendered content
\* lines yOffset .. yOffset + height - 1 in order, then empty lines where the
\* content has no line left.
C21_ViewWindow ==
  viewport.height >= 1 =>
    LET out == split(Viewport_view(viewport))
    IN /\ Len(out) = viewport.height
       /\ \A i \in 1..Len(out) :
            LET n == viewport.yOffset + i
            IN out[i] = (IF n \in 1..Len(viewport.lines)
                         THEN processLine(viewport, viewport.lines[n])
                         ELSE << >>)


(* ------------------------------ TextInput: state machine --------------- *)

TextOp(name, text, position) ==
  [name |-> name, text |-> text, position |-> position]

\* createTextInput with any value and with or without a maxLength
InitTextInput ==
  /\ \E value \in Values, maxLength \in {0, 2} :
       textInput = createTextInput(TextInputOptions(value, maxLength))
  /\ input = textInput
  /\ lastOp = TextOp("createTextInput", textInput.value, 0)
  /\ list = NoList
  /\ loop = NoLoop
  /\ table = NoTable
  /\ viewport = NoViewport
  /\ NoTimer
  /\ help = NoHelp
  /\ progress = NoProgress

\* createTextInput with any value and rendering options
InitTextInputView ==
  /\ \E value \in Values, style \in Styles :
       textInput = createTextInput(StyledOptions(value, style))
  /\ input = textInput
  /\ lastOp = TextOp("createTextInput", textInput.value, 0)
  /\ list = NoList
  /\ loop = NoLoop
  /\ table = NoTable
  /\ viewport = NoViewport
  /\ NoTimer
  /\ help = NoHelp
  /\ progress = NoProgress

SetValue ==
  \E value \in NewValues :
    /\ textInput' = setValue(textInput, value)
    /\ Len(textInput'.value) <= MaxValueLength
    /\ input' = textInput
    /\ lastOp' = TextOp("setValue", value, 0)
    /\ UNCHANGED NotTextInput

Focus ==
  /\ textInput' = focus(textInput)
  /\ input' = textInput
  /\ lastOp' = TextOp("focus", << >>, 0)
  /\ UNCHANGED NotTextInput

Blur ==
  /\ textInput' = blur(textInput)
  /\ input' = textInput
  /\ lastOp' = TextOp("blur", << >>, 0)
  /\ UNCHANGED NotTextInput

SetCursor ==
  \E position \in (-1)..(MaxValueLength + 1) :
    /\ textInput' = setCursor(textInput, position)
    /\ input' = textInput
    /\ lastOp' = TextOp("setCursor", << >>, position)
    /\ UNCHANGED NotTextInput

CursorLeft ==
  /\ textInput' = cursorLeft(textInput)
  /\ input' = textInput
  /\ lastOp' = TextOp("cursorLeft", << >>, 0)
  /\ UNCHANGED NotTextInput

CursorRight ==
  /\ textInput' = cursorRight(textInput)
  /\ input' = textInput
  /\ lastOp' = TextOp("cursorRight", << >>, 0)
  /\ UNCHANGED NotTextInput

CursorStart ==
  /\ textInput' = cursorStart(textInput)
  /\ input' = textInput
  /\ lastOp' = TextOp("cursorStart", << >>, 0)
  /\ UNCHANGED NotTextInput

CursorEnd ==
  /\ textInput' = cursorEnd(textInput)
  /\ input' = textInput
  /\ lastOp' = TextOp("cursorEnd", << >>, 0)
  /\ UNCHANGED NotTextInput

\* a run is followed while the value has at most MaxValueLength characters
Insert ==
  \E char \in Inserts :
    /\ textInput' = insert(textInput, char)
    /\ Len(textInput'.value) <= MaxValueLength
    /\ input' = textInput
    /\ lastOp' = TextOp("insert", char, 0)
    /\ UNCHANGED NotTextInput

Backspace ==
  /\ textInput' = backspace(textInput)
  /\ input' = textInput
  /\ lastOp' = TextOp("backspace", << >>, 0)
  /\ UNCHANGED NotTextInput

DeleteChar ==
  /\ textInput' = deleteChar(textInput)
  /\ input' = textInput
  /\ lastOp' = TextOp("deleteChar", << >>, 0)
  /\ UNCHANGED NotTextInput

DeleteWordBackward ==
  /\ textInput' = deleteWordBackward(textInput)
  /\ input' = textInput
  /\ lastOp' = TextOp("deleteWordBackward", << >>, 0)
  /\ UNCHANGED NotTextInput

DeleteToEnd ==
  /\ textInput' = deleteToEnd(textInput)
  /\ input' = textInput
  /\ lastOp' = TextOp("deleteToEnd", << >>, 0)
  /\ UNCHANGED NotTextInput

DeleteToStart ==
  /\ textInput' = deleteToStart(textInput)
  /\ input' = textInput
  /\ lastOp' = TextOp("deleteToStart", << >>, 0)
  /\ UNCHANGED NotTextInput

Clear ==
  /\ textInput' = clear(textInput)
  /\ input' = textInput
  /\ lastOp' = TextOp("clear", << >>, 0)
  /\ UNCHANGED NotTextInput

WordLeft ==
  /\ textInput' = wordLeft(textInput)
  /\ input' = textInput
  /\ lastOp' = TextOp("wordLeft", << >>, 0)
  /\ UNCHANGED NotTextInput

WordRight ==
  /\ textInput' = wordRight(textInput)
  /\ input' = textInput
  /\ lastOp' = TextOp("wordRight", << >>, 0)
  /\ UNCHANGED NotTextInput

NextTextInput ==
  \/ SetValue
  \/ Focus
  \/ Blur
  \/ SetCursor
  \/ CursorLeft
  \/ CursorRight
  \/ CursorStart
  \/ CursorEnd
  \/ Insert
  \/ Backspace
  \/ DeleteChar
  \/ DeleteWordBackward
  \/ DeleteToEnd
  \/ DeleteToStart
  \/ Clear
  \/ WordLeft
  \/ WordRight

SpecTextInput == InitTextInput /\ [][NextTextInput]_vars

SpecTextInputView == InitTextInputView /\ [][NextTextInput]_vars

(* ------------------------------ TextInput: properties ------------------ *)

\* C22: with maxLength > 0, after insert and after setValue the value has at
\* most maxLength characters.
C22_MaxLengthRespected ==
  (lastOp.name \in {"insert", "setValue"} /\ textInput.maxLength > 0)
    => Len(textInput.value) <= textInput.maxLength

\* C23: insert at maxLength, backspace at cursor 0 and deleteChar at the end
\* of the value return their input unchanged.
C23_BoundaryFailsClosed ==
  /\ ( /\ lastOp.name = "insert"
       /\ input.maxLength > 0
       /\ Len(input.value) >= input.maxLength ) => textInput = input
  /\ (lastOp.name = "backspace" /\ input.cursor = 0) => textInput = input
  /\ (lastOp.name = "deleteChar" /\ input.cursor = Len(input.value))
       => textInput = input

\* insert of a character into a full value returned the value and cursor
C23_Witness ==
  /\ lastOp.name = "insert"
  /\ Len(lastOp.text) = 1
  /\ input.maxLength = 2
  /\ Len(input.value) = 2
  /\ input.cursor = 1
  /\ textInput = input

\* j is where the word before position c starts: value[j..c) is a run of
\* non-whitespace followed by a run of whitespace, and neither run can be
\* extended to the left
IsWordStart(value, c, j) ==
  \E k \in j..c :
    /\ \A n \in (k + 1)..c : isSpace(value[n])
    /\ \A n \in (j + 1)..k : ~isSpace(value[n])
    /\ (k = 0 \/ ~isSpace(value[k]))
    /\ (j = 0 \/ isSpace(value[j]))

\* C24: deleteWordBackward with cursor c > 0 removes value[j..c), j being
\* the start of the word before the cursor, keeps the text from the cursor
\* on, and sets cursor to j.
C24_DeleteWordBackward ==
  (lastOp.name = "deleteWordBackward" /\ input.cursor > 0) =>
    LET value == input.value
        c == Min(input.cursor, Len(value))
    IN \E j \in 0..c :
         /\ IsWordStart(value, c, j)
         /\ textInput =
              [input EXCEPT
                 !.value = SubSeq(value, 1, j) \o SubSeq(value, c + 1, Len(value)),
                 !.cursor = j]

\* a word, a space and a word with the cursor at the end: the last word goes
C24_Witness ==
  /\ lastOp.name = "deleteWordBackward"
  /\ input.value = <<"a", " ", "a">>
  /\ input.cursor = 3
  /\ textInput.value = <<"a", " ">>
  /\ textInput.cursor = 2

\* C25: for a cursor in [0, value.length], wordLeft and deleteWordBackward
\* of the same model end with the same cursor.
C25_WordLeftSymmetric ==
  input.cursor \in 0..Len(input.value) =>
    /\ lastOp.name = "wordLeft" =>
         textInput.cursor = deleteWordBackward(input).cursor
    /\ lastOp.name = "deleteWordBackward" =>
         textInput.cursor = wordLeft(input).cursor

\* wordLeft from behind a space went over the space and the word before it
C25_Witness ==
  /\ lastOp.name = "wordLeft"
  /\ input.value = <<"a", "a", " ">>
  /\ input.cursor = 3
  /\ textInput.cursor = 0

\* C26: for a focused input with width > 0, a one-character cursor glyph,
\* no mask or a one-character mask and a cursor in [0, value.length], view
\* is the prompt, a field of exactly width characters and the count suffix;
\* the field holds the cursor glyph, at the cursor's position or, when that
\* is beyond the width, in the last place, and a text shorter than the
\* width is padded with spaces.
C26_FieldWidth ==
  ( /\ textInput.focused
    /\ textInput.width > 0
    /\ Len(textInput.cursorChar) = 1
    /\ (textInput.mask = NullMask \/ Len(textInput.mask[1]) = 1)
    /\ textInput.cursor \in 0..Len(textInput.value) ) =>
    LET out == TextInput_view(textInput)
        width == textInput.width
        first == Len(textInput.prompt) + 1
        last == Len(out) - Len(charCount(textInput))
        field == SubSeq(out, first, last)
        glyphAt == Min(textInput.cursor + 1, width)
    IN /\ out = textInput.prompt \o field \o charCount(textInput)
       /\ Len(field) = width
       /\ field[glyphAt] = textInput.cursorChar[1]
       /\ \A i \in (Len(textInput.value) + 2)..width : field[i] = " "

\* a value longer than the field with the cursor at its end: the window has
\* slid to the end
C26_Witness ==
  /\ textInput.focused
  /\ textInput.width = 2
  /\ textInput.mask = NullMask
  /\ Len(textInput.value) = 3
  /\ textInput.cursor = 3
  /\ lastOp.name = "cursorEnd"

\* C37: in every reachable TextInput state the cursor is an index into the
\* value: 0 <= cursor <= value.length.
C37_CursorInRange ==
  /\ 0 <= textInput.cursor
  /\ textInput.cursor <= Len(textInput.value)

\* C40: for a model with its cursor in [0, value.length] and room for one
\* more character (maxLength = 0 or value.length < maxLength), backspace
\* after the insert of a single character gives back the value and the
\* cursor of the model.
C40_InsertBackspaceIdentity ==
  ( /\ lastOp.name = "insert"
    /\ Len(lastOp.text) = 1
    /\ input.cursor >= 0
    /\ input.cursor <= Len(input.value)
    /\ (input.maxLength = 0 \/ Len(input.value) < input.maxLength) )
    => /\ backspace(textInput).value = input.value
       /\ backspace(textInput).cursor = input.cursor

\* a character was inserted in the middle of a value that differs on the two
\* sides of the cursor
C40_Witness ==
  /\ lastOp.name = "insert"
  /\ lastOp.text = <<" ">>
  /\ input.value = <<"a", "a">>
  /\ input.cursor = 1
  /\ input.maxLength = 0
  /\ textInput.value = <<"a", " ", "a">>
  /\ textInput.cursor = 2

(* ------------------------------ Timer: state machine ------------------- *)

\* createTimer in any mode, with any duration and initial elapsed time
InitTimer ==
  /\ now = 1
  /\ \E mode \in TimerModes, duration \in Durations, elapsed \in 0..1,
        autoStart \in BOOLEAN :
       /\ timer = createTimer(TimerOptions(mode, duration, elapsed, autoStart),
                              now)
       /\ since = Since(elapsed, 0)
  /\ input = timer
  /\ lastOp = TimerOp("createTimer", now)
  /\ list = NoList
  /\ loop = NoLoop
  /\ table = NoTable
  /\ viewport = NoViewport
  /\ textInput = NoTextInput
  /\ help = NoHelp
  /\ progress = NoProgress

\* createTimer in stopwatch mode, or createStopwatch
InitStopwatch ==
  /\ now = 1
  /\ \E elapsed \in 0..1, autoStart \in BOOLEAN :
       /\ timer \in { createTimer(TimerOptions("stopwatch", 0, elapsed,
                                               autoStart), now),
                      createStopwatch(autoStart, now) }
       /\ since = Since(timer.elapsed, 0)
  /\ input = timer
  /\ lastOp = TimerOp("createTimer", now)
  /\ list = NoList
  /\ loop = NoLoop
  /\ table = NoTable
  /\ viewport = NoViewport
  /\ textInput = NoTextInput
  /\ help = NoHelp
  /\ progress = NoProgress

\* the clock advances between two calls
Advance ==
  \E passed \in 1..2 :
    /\ now + passed <= MaxTime
    /\ now' = now + passed
    /\ since' = [since EXCEPT
                   !.timeRunning = IF timer.state = "running"
                                   THEN since.timeRunning + passed
                                   ELSE since.timeRunning]
    /\ UNCHANGED <<timer, input, lastOp>>
    /\ UNCHANGED NotTimer

Start ==
  /\ timer' = start(timer, now)
  /\ input' = timer
  /\ lastOp' = TimerOp("start", now)
  /\ UNCHANGED <<now, since>>
  /\ UNCHANGED NotTimer

Pause ==
  /\ timer' = pause(timer, now)
  /\ input' = timer
  /\ lastOp' = TimerOp("pause", now)
  /\ UNCHANGED <<now, since>>
  /\ UNCHANGED NotTimer

Resume ==
  /\ timer' = resume(timer, now)
  /\ input' = timer
  /\ lastOp' = TimerOp("resume", now)
  /\ UNCHANGED <<now, since>>
  /\ UNCHANGED NotTimer

Toggle ==
  /\ timer' = toggle(timer, now)
  /\ input' = timer
  /\ lastOp' = TimerOp("toggle", now)
  /\ UNCHANGED <<now, since>>
  /\ UNCHANGED NotTimer

Stop ==
  /\ timer' = stop(timer)
  /\ input' = timer
  /\ lastOp' = TimerOp("stop", now)
  /\ UNCHANGED <<now, since>>
  /\ UNCHANGED NotTimer

Reset ==
  /\ timer' = reset(timer, now)
  /\ input' = timer
  /\ lastOp' = TimerOp("reset", now)
  /\ UNCHANGED <<now, since>>
  /\ UNCHANGED NotTimer

Tick ==
  /\ timer' = tick(timer, now)
  /\ input' = timer
  /\ lastOp' = TimerOp("tick", now)
  /\ UNCHANGED <<now, since>>
  /\ UNCHANGED NotTimer

NextTimer ==
  \/ Advance
  \/ Start
  \/ Pause
  \/ Resume
  \/ Toggle
  \/ Stop
  \/ Reset
  \/ Tick

\* the calls that neither stop nor reset the timer
NextStopwatch ==
  \/ Advance
  \/ Start
  \/ Pause
  \/ Resume
  \/ Toggle
  \/ Tick

SpecTimer == InitTimer /\ [][NextTimer]_vars

SpecStopwatch == InitStopwatch /\ [][NextStopwatch]_vars

(* ------------------------------ Timer: properties ---------------------- *)

\* the changes of state the four-state machine allows, by operation
TimerMoves ==
  { <<"idle", "running", "start">>, <<"idle", "running", "toggle">>,
    <<"running", "paused", "pause">>, <<"running", "paused", "toggle">>,
    <<"paused", "running", "resume">>, <<"paused", "running", "start">>,
    <<"paused", "running", "toggle">>,
    <<"running", "finished", "tick">> }
    \cup {<<from, "idle", op>> : from \in TimerStates, op \in {"stop", "reset"}}

\* C27: the state changes only along idle->running (start, toggle),
\* running->paused (pause, toggle), paused->running (resume, start, toggle),
\* running->finished (tick, countdown only) and back to idle (stop, reset);
\* pause is a no-op unless running, resume unless paused, start when running
\* or finished, toggle when finished.
C27_FourStateMachine ==
  lastOp.name # "createTimer" =>
    /\ input.state # timer.state =>
         /\ <<input.state, timer.state, lastOp.name>> \in TimerMoves
         /\ lastOp.name = "tick" => input.mode = "countdown"
    /\ (lastOp.name = "pause" /\ input.state # "running") => timer = input
    /\ (lastOp.name = "resume" /\ input.state # "paused") => timer = input
    /\ (lastOp.name = "start" /\ input.state \in {"running", "finished"})
         => timer = input
    /\ (lastOp.name = "toggle" /\ input.state = "finished") => timer = input

\* start called on a finished countdown left it finished
C27_Witness ==
  /\ lastOp.name = "start"
  /\ input.state = "finished"
  /\ timer.state = "finished"

\* the time since the start timestamp, none without a timestamp
LiveElapsed(model, dateNow) ==
  IF model.startTime = Null THEN 0 ELSE dateNow - model.startTime[1]

\* C28: tick on a running countdown whose accumulated plus live elapsed time
\* has reached duration gives state finished, elapsed = duration and no
\* start timestamp; on a finished timer tick, start, pause, resume and toggle
\* return the model unchanged.
C28_FinishIdempotent ==
  /\ ( /\ lastOp.name = "tick"
       /\ input.state = "running"
       /\ input.mode = "countdown"
       /\ input.elapsed + LiveElapsed(input, lastOp.now) >= input.duration )
       => timer = [input EXCEPT !.state = "finished",
                                !.elapsed = input.duration,
                                !.startTime = Null]
  /\ ( /\ input.state = "finished"
       /\ lastOp.name \in {"tick", "start", "pause", "resume", "toggle"} )
       => timer = input

\* a countdown finished late, beyond its duration, and ticked again later
C28_Witness ==
  /\ lastOp.name = "tick"
  /\ input.state = "finished"
  /\ timer.state = "finished"
  /\ timer.duration = 2
  /\ timer.elapsed = 2
  /\ lastOp.now = 5

\* C29: for a stopwatch, through start, pause, resume, toggle and tick under
\* an advancing clock, getElapsed is the initial elapsed time plus the time
\* spent running.
C29_ElapsedIsTimeRunning ==
  getElapsed(timer, now) = since.initialElapsed + since.timeRunning

\* paused after running, with time passing while paused
C29_Witness ==
  /\ timer.state = "paused"
  /\ lastOp.name = "pause"
  /\ since.timeRunning = 2
  /\ now > lastOp.now
  /\ getElapsed(timer, now) = since.initialElapsed + 2

\* C30: reset zeroes elapsed in every state; a running timer stays running
\* with its start timestamp at the time of the call, an idle or paused timer
\* becomes idle without a start timestamp.
C30_Reset ==
  lastOp.name = "reset" =>
    /\ timer.elapsed = 0
    /\ input.state = "running" =>
         /\ timer.state = "running"
         /\ timer.startTime = At(lastOp.now)
    /\ input.state \in {"idle", "paused"} =>
         /\ timer.state = "idle"
         /\ timer.startTime = Null

\* reset of a timer that was running since an earlier time
C30_Witness ==
  /\ lastOp.name = "reset"
  /\ input.state = "running"
  /\ input.elapsed > 0
  /\ input.startTime # At(lastOp.now)
  /\ timer.state = "running"
  /\ timer.startTime = At(lastOp.now)
  /\ timer.elapsed = 0

\* C38: the start timestamp is set exactly when the timer is running and the
\* pause timestamp is set exactly when it is paused.
C38_Timestamps ==
  /\ timer.startTime # Null <=> timer.state = "running"
  /\ timer.pauseTime # Null <=> timer.state = "paused"

\* a paused timer was resumed: the pause timestamp is gone and the start
\* timestamp is the time of the call
C38_Witness ==
  /\ lastOp.name = "resume"
  /\ input.state = "paused"
  /\ input.pauseTime # Null
  /\ input.startTime = Null
  /\ timer.state = "running"
  /\ timer.startTime = At(lastOp.now)
  /\ timer.pauseTime = Null

(* ------------------------------ Help: state machine -------------------- *)

\* an option over a set of values: not passed, or one of the values
OptionOf(values) == {<< >>} \cup {<<v>> : v \in values}

\* createHelp with or without bindings, groups and a column count
InitHelp ==
  /\ \E bindings \in OptionOf(BindingLists), groups \in OptionOf(GroupLists),
        columns \in OptionOf(1..MaxColumns) :
       help = createHelp(HelpOptions(bindings, groups, columns))
  /\ list = NoList
  /\ loop = NoLoop
  /\ table = NoTable
  /\ viewport = NoViewport
  /\ textInput = NoTextInput
  /\ NoTimer
  /\ input = list
  /\ lastOp = Op("createList", 0, "none", << >>)
  /\ progress = NoProgress

\* a run is followed while the model holds at most MaxBindings bindings, flat
\* and grouped, in at most MaxGroups groups
HelpFollowed(model) ==
  /\ Len(model.bindings) <= MaxBindings
  /\ Len(flatMapBindings(model.groups)) <= MaxBindings
  /\ Len(model.groups) <= MaxGroups

AddBinding ==
  \E binding \in {KeyJ, KeyUp} :
    /\ help' = addBinding(help, binding.key, binding.description)
    /\ HelpFollowed(help')
    /\ UNCHANGED NotHelp

AddBindings ==
  \E bindings \in BindingLists :
    /\ help' = addBindings(help, bindings)
    /\ HelpFollowed(help')
    /\ UNCHANGED NotHelp

AddGroup ==
  \E group \in Groups :
    /\ help' = addGroup(help, group)
    /\ HelpFollowed(help')
    /\ UNCHANGED NotHelp

SetBindings ==
  \E bindings \in BindingLists :
    /\ help' = setBindings(help, bindings)
    /\ UNCHANGED NotHelp

SetGroups ==
  \E groups \in GroupLists :
    /\ help' = setGroups(help, groups)
    /\ UNCHANGED NotHelp

NextHelp ==
  \/ AddBinding
  \/ AddBindings
  \/ AddGroup
  \/ SetBindings
  \/ SetGroups

\* every Help transition, from createHelp with any options
SpecHelp == InitHelp /\ [][NextHelp]_vars

(* ------------------------------ Help: properties ----------------------- *)

\* the number of bindings in the groups before group g
RECURSIVE BindingsBefore(_, _)
BindingsBefore(groups, g) ==
  IF g <= 1 THEN 0
  ELSE BindingsBefore(groups, g - 1) + Len(groups[g - 1].bindings)

\* C31: in every Help state reachable from createHelp through addBinding,
\* addBindings, addGroup, setBindings and setGroups, bindings is the
\* concatenation, in order, of the bindings of all groups.
C31_BindingsMirrorGroups ==
  /\ Len(help.bindings) = BindingsBefore(help.groups, Len(help.groups) + 1)
  /\ \A g \in 1..Len(help.groups) :
       \A k \in 1..Len(help.groups[g].bindings) :
         help.bindings[BindingsBefore(help.groups, g) + k]
           = help.groups[g].bindings[k]

\* the bindings of row r (from 0) of a column-major layout of n bindings in
\* rowCount rows: the bindings i with i mod rowCount = r, by their column
\* floor(i / rowCount)
RowOf(bindings, rowCount, r) ==
  LET inRow == {i \in 0..(Len(bindings) - 1) : i % rowCount = r}
  IN [c \in 1..Cardinality(inRow) |->
        bindings[(CHOOSE i \in inRow : i \div rowCount = c - 1) + 1]]

\* the lines of the column-major layout of bindings in k columns
ColumnMajor(model, bindings, k) ==
  LET n == Len(bindings)
      rowCount == IF n % k = 0 THEN n \div k ELSE n \div k + 1
      keyWidth == CHOOSE w \in 0..MaxBindings :
                    /\ \A i \in 1..n : Len(bindings[i].key) <= w
                    /\ \E i \in 1..n : Len(bindings[i].key) = w
      gap == [j \in 1..model.columnGap |-> " "]
  IN [r \in 1..rowCount |->
        join([c \in 1..Len(RowOf(bindings, rowCount, r - 1)) |->
                LET b == RowOf(bindings, rowCount, r - 1)[c]
                IN b.key \o [j \in 1..(keyWidth - Len(b.key)) |-> " "]
                     \o model.separator \o b.description],
             gap)]

\* C32: viewColumns of a Help with n >= 1 bindings and an explicit column
\* count k >= 1 is ceil(n / k) lines, binding i in row i mod rowCount and
\* column floor(i / rowCount): each binding once, none dropped.
C32_ColumnMajor ==
  (Len(help.bindings) >= 1 /\ help.columns >= 1) =>
    LET lines == ColumnMajor(help, help.bindings, help.columns)
    IN viewColumns(help) = join(lines, NewLine)

(* ------------------------------ Progress: state machine -------------- *)

\* the last Progress call: its name and its argument, << >> when it has none
ProgressOp(name, argument) == [name |-> name, argument |-> argument]

InitProgress ==
  /\ progress = createProgress(ProgressOptions(<< >>))
  /\ input = progress
  /\ lastOp = ProgressOp("createProgress", << >>)
  /\ list = NoList
  /\ loop = NoLoop
  /\ table = NoTable
  /\ viewport = NoViewport
  /\ textInput = NoTextInput
  /\ NoTimer
  /\ help = NoHelp

SetProgress ==
  \E value \in ProgressValues :
    /\ progress' = setProgress(progress, value)
    /\ input' = progress
    /\ lastOp' = ProgressOp("set", <<value>>)
    /\ UNCHANGED NotProgress

SetPercent ==
  \E percent \in Percents :
    /\ progress' = setPercent(progress, percent)
    /\ input' = progress
    /\ lastOp' = ProgressOp("setPercent", <<percent>>)
    /\ UNCHANGED NotProgress

Increment ==
  \E amount \in ProgressAmounts :
    /\ progress' = increment(progress, amount)
    /\ input' = progress
    /\ lastOp' = ProgressOp("increment", amount)
    /\ UNCHANGED NotProgress

Decrement ==
  \E amount \in ProgressAmounts :
    /\ progress' = decrement(progress, amount)
    /\ input' = progress
    /\ lastOp' = ProgressOp("decrement", amount)
    /\ UNCHANGED NotProgress

ProgressReset ==
  /\ progress' = Progress_reset(progress)
  /\ input' = progress
  /\ lastOp' = ProgressOp("reset", << >>)
  /\ UNCHANGED NotProgress

Complete ==
  /\ progress' = complete(progress)
  /\ input' = progress
  /\ lastOp' = ProgressOp("complete", << >>)
  /\ UNCHANGED NotProgress

NextProgress ==
  \/ SetProgress
  \/ SetPercent
  \/ Increment
  \/ Decrement
  \/ ProgressReset
  \/ Complete

\* every Progress transition, from createProgress
SpecProgress == InitProgress /\ [][NextProgress]_vars

(* ------------------------------ Progress: properties ------------------- *)

\* the finite numbers from 0 to 1
InUnitInterval(number) ==
  /\ number.kind = "finite"
  /\ number.hundredths >= 0
  /\ number.hundredths <= 100

\* value is percent / 100
IsHundredthOf(value, percent) ==
  IF percent.kind = "finite"
  THEN value.kind = "finite" /\ 100 * value.hundredths = percent.hundredths
  ELSE value = percent

\* C33: after any sequence of set, setPercent, increment, decrement, reset
\* and complete with arbitrary numeric arguments 0 <= progress <= 1:
\* set(1.5) gives 1, set(-0.5) gives 0, and setPercent(p) equals set(p / 100).
C33_ProgressClamped ==
  /\ InUnitInterval(progress.progress)
  /\ (lastOp.name = "set" /\ lastOp.argument = <<Finite(150)>>)
       => progress.progress = Finite(100)
  /\ (lastOp.name = "set" /\ lastOp.argument = <<Finite(-50)>>)
       => progress.progress = Finite(0)
  /\ lastOp.name = "setPercent" =>
       \E value \in {Finite(h) : h \in (-100)..200} \cup {NaN} :
         /\ IsHundredthOf(value, lastOp.argument[1])
         /\ progress = setProgress(input, value)

(* ------------------------------ List: properties ---------------------- *)

NavNames ==
  {"moveUp", "moveDown", "moveToStart", "moveToEnd", "moveByPage", "select"}

MoveNames == NavNames \ {"select"}

FilterNames == {"filter", "filterByTitle"}

Enabled(items, i) ==
  /\ i \in 0..(Len(items) - 1)
  /\ ~items[i + 1].disabled

HasEnabled(items) == \E i \in 0..(Len(items) - 1) : Enabled(items, i)

AllDisabled(items) == \A i \in 0..(Len(items) - 1) : ~Enabled(items, i)

InRange(model) == model.selected \in 0..(Len(model.items) - 1)

InWindow(model) ==
  /\ model.offset <= model.selected
  /\ model.selected <= model.offset + model.height - 1

\* C1: with height H > 0, after each navigation call of a sequence of
\* navigation calls on a model made by createList, the scroll window
\* contains the selection: offset <= selected <= offset + H - 1.
C1_WindowContainsSelected ==
  (list.height > 0 /\ lastOp.name \in NavNames) => InWindow(list)

\* C2: offset is never negative, never exceeds max(0, items.length - height),
\* and is 0 whenever height is 0.
C2_OffsetInRange ==
  /\ list.offset >= 0
  /\ list.offset <= Max(0, Len(list.items) - list.height)
  /\ (list.height = 0 => list.offset = 0)

\* C3: 0 <= selected < items.length whenever items is non-empty, whatever the
\* disabled flags are, and selected is 0 when items is empty.
C3_SelectedInRange ==
  IF Len(list.items) = 0
  THEN list.selected = 0
  ELSE InRange(list)

\* C4: after moveUp, moveDown, moveToStart, moveToEnd or moveByPage the
\* selected item is not disabled whenever some item is not disabled.
C4_SelectedEnabled ==
  (lastOp.name \in MoveNames /\ HasEnabled(list.items))
    => Enabled(list.items, list.selected)

\* the index d steps before (after) s, cyclically over n items
Back(s, d, n) == (s - d + 2 * n) % n

Forth(s, d, n) == (s + d) % n

\* C5: from a selection within the items, moveUp (moveDown) selects the
\* nearest non-disabled index met stepping backwards (forwards): cyclically
\* over all items when wrap is set, only as far as index 0 (the last index)
\* otherwise, whenever such an index exists.
C5_SkipsDisabled ==
  LET items == input.items
      n == Len(items)
      s == input.selected
  IN /\ (lastOp.name = "moveUp" /\ InRange(input)) =>
          IF input.wrap
          THEN \A d \in 1..n :
                 ( /\ Enabled(items, Back(s, d, n))
                   /\ \A e \in 1..(d - 1) : ~Enabled(items, Back(s, e, n)) )
                 => list.selected = Back(s, d, n)
          ELSE \A j \in 0..(s - 1) :
                 ( /\ Enabled(items, j)
                   /\ \A k \in (j + 1)..(s - 1) : ~Enabled(items, k) )
                 => list.selected = j
     /\ (lastOp.name = "moveDown" /\ InRange(input)) =>
          IF input.wrap
          THEN \A d \in 1..n :
                 ( /\ Enabled(items, Forth(s, d, n))
                   /\ \A e \in 1..(d - 1) : ~Enabled(items, Forth(s, e, n)) )
                 => list.selected = Forth(s, d, n)
          ELSE \A j \in (s + 1)..(n - 1) :
                 ( /\ Enabled(items, j)
                   /\ \A k \in (s + 1)..(j - 1) : ~Enabled(items, k) )
                 => list.selected = j

\* items [A, B(disabled), C], selected = 2, moveUp gives selected = 0
C5_Witness ==
  /\ lastOp.name = "moveUp"
  /\ Len(input.items) = 3
  /\ Enabled(input.items, 0)
  /\ ~Enabled(input.items, 1)
  /\ Enabled(input.items, 2)
  /\ input.selected = 2
  /\ list.selected = 0

\* C6 as stated: with wrap, moveUp from 0 gives N-1 and moveDown from N-1
\* gives 0; without wrap both return a model equal to their input.
C6_Original ==
  LET n == Len(input.items)
  IN /\ (lastOp.name = "moveUp" /\ n >= 1 /\ input.selected = 0) =>
          IF input.wrap THEN list.selected = n - 1 ELSE list = input
     /\ (lastOp.name = "moveDown" /\ n >= 1 /\ input.selected = n - 1) =>
          IF input.wrap THEN list.selected = 0 ELSE list = input

\* C6 amended: with wrap, moveUp from 0 gives N-1 when item N-1 is not
\* disabled and moveDown from N-1 gives 0 when item 0 is not disabled;
\* without wrap both leave selected unchanged, and return a model equal to
\* their input whenever the scroll window already contained the selection.
C6_WrapAround ==
  LET n == Len(input.items)
      shown == input.height = 0 \/ InWindow(input)
  IN /\ (lastOp.name = "moveUp" /\ n >= 1 /\ input.selected = 0) =>
          IF input.wrap
          THEN Enabled(input.items, n - 1) => list.selected = n - 1
          ELSE /\ list.selected = 0
               /\ shown => list = input
     /\ (lastOp.name = "moveDown" /\ n >= 1 /\ input.selected = n - 1) =>
          IF input.wrap
          THEN Enabled(input.items, 0) => list.selected = 0
          ELSE /\ list.selected = n - 1
               /\ shown => list = input

\* moveUp wrapped from index 0 to the last of three items
C6_Witness ==
  /\ lastOp.name = "moveUp"
  /\ input.wrap
  /\ Len(input.items) = 3
  /\ input.selected = 0
  /\ list.selected = 2

\* C7: every skip loop of a navigation operation terminates, and moveUp and
\* moveDown run at most items.length skip steps.
C7_Terminates ==
  /\ loop.terminated
  /\ lastOp.name \in {"moveUp", "moveDown"} => loop.steps <= Len(list.items)

\* moveUp over items that are all disabled ran items.length skip steps
C7_Witness ==
  /\ lastOp.name = "moveUp"
  /\ Len(input.items) >= 2
  /\ AllDisabled(input.items)
  /\ input.wrap
  /\ loop.terminated
  /\ loop.steps = Len(input.items)

\* C8: select returns its input when index is out of range or the item is
\* disabled, and otherwise sets selected to exactly index.
C8_SelectFailsClosed ==
  lastOp.name = "select" =>
    LET i == lastOp.index
    IN IF i < 0 \/ i >= Len(input.items) \/ input.items[i + 1].disabled
       THEN list = input
       ELSE list.selected = i

\* select of a disabled index other than the selection returned its input
C8_Witness ==
  /\ lastOp.name = "select"
  /\ lastOp.index \in 0..(Len(input.items) - 1)
  /\ input.items[lastOp.index + 1].disabled
  /\ lastOp.index # input.selected
  /\ list = input

\* C9 as stated: filter and filterByTitle return selected = 0 and offset = 0.
C9_Original ==
  lastOp.name \in FilterNames => list.selected = 0 /\ list.offset = 0

\* C9 amended: filter and filterByTitle return selected = min(old selected,
\* max(0, filtered length - 1)), the old index clamped to the filtered
\* items and not reset to 0, and offset = 0.
C9_FilterClampsSelection ==
  lastOp.name \in FilterNames =>
    /\ list.selected = Min(input.selected, Max(0, Len(list.items) - 1))
    /\ list.offset = 0

\* a filter that dropped items left the selection on a later index
C9_Witness ==
  /\ lastOp.name \in FilterNames
  /\ Len(list.items) < Len(input.items)
  /\ input.selected >= 1
  /\ list.selected >= 1

PageTargets(model, direction) ==
  LET page == IF model.height > 0 THEN model.height ELSE 10
      moved == IF direction = "up" THEN model.selected - page
               ELSE model.selected + page
      last == Len(model.items) - 1
      candidate == IF moved < 0 THEN 0 ELSE IF moved > last THEN last ELSE moved
      enabled == {i \in 0..last : ~model.items[i + 1].disabled}
  IN IF direction = "up"
     THEN {i \in enabled : i <= candidate /\ \A j \in enabled : j <= candidate => j <= i}
     ELSE {i \in enabled : i >= candidate /\ \A j \in enabled : j >= candidate => j >= i}

\* C35: moveByPage takes selected -/+ pageSize (pageSize is height, or 10
\* when height is 0) clamped into the items as its candidate, steps from a
\* disabled candidate one index at a time in the paging direction, selects
\* the first enabled index it meets, and returns its input unchanged when it
\* runs off an end without meeting one.
C35_MoveByPage ==
  lastOp.name = "moveByPage" =>
    LET targets == PageTargets(input, lastOp.direction)
    IN /\ targets = {} => list = input
       /\ \A i \in targets : list.selected = i

\* paging down from the first item met only disabled items from the candidate
\* to the end and left the model as it was, with an enabled item skipped over
C35_Witness ==
  /\ lastOp.name = "moveByPage"
  /\ lastOp.direction = "down"
  /\ Len(input.items) = 4
  /\ input.height = 2
  /\ input.selected = 0
  /\ ~input.items[2].disabled
  /\ input.items[3].disabled
  /\ input.items[4].disabled
  /\ list = input

NavigationNames ==
  {"moveUp", "moveDown", "moveToStart", "moveToEnd", "moveByPage", "select"}

\* C39: moveUp, moveDown, moveToStart, moveToEnd, moveByPage and select
\* change no field other than selected and offset.
C39_NavigationFrame ==
  lastOp.name \in NavigationNames =>
    /\ list.items = input.items
    /\ list.height = input.height
    /\ list.cursor = input.cursor
    /\ list.uncursor = input.uncursor
    /\ list.showDescriptions = input.showDescriptions
    /\ list.wrap = input.wrap

\* a move in a list without wrap-around changed the selection and scrolled
C39_Witness ==
  /\ lastOp.name \in NavigationNames
  /\ ~input.wrap
  /\ input.height = 1
  /\ list.selected # input.selected
  /\ list.offset # input.offset
  /\ list.offset > 0

\* the line of index i: cursor or uncursor, the title, and the suffix of a
\* disabled item; an index without an item has no line
ItemLine(model, i) ==
  IF i \in 0..(Len(model.items) - 1)
  THEN (IF i = model.selected THEN model.cursor ELSE model.uncursor)
         \o model.items[i + 1].title
         \o (IF model.items[i + 1].disabled
             THEN <<" ", "(", "d", "i", "s", "a", "b", "l", "e", "d", ")">>
             ELSE << >>)
  ELSE << >>

\* the item indices view shows: the window of height items from offset, or
\* every item when height is 0
ShownFrom(model) == IF model.height > 0 THEN model.offset ELSE 0

ShownTo(model) ==
  IF model.height > 0
  THEN Min(model.offset + model.height, Len(model.items))
  ELSE Len(model.items)

\* C34: view of a non-empty list with showDescriptions false is one line per
\* index in [offset, min(offset + height, items.length)) when height > 0, or
\* per every item when height = 0, in index order: cursor + title for the
\* selected index, uncursor + title otherwise, with " (disabled)" appended
\* for disabled items; an empty list renders as the empty string.
C34_ListView ==
  /\ Len(list.items) = 0 => List_view(list) = << >>
  /\ (Len(list.items) > 0 /\ ~list.showDescriptions) =>
       /\ List_view(list) # TypeError
       /\ List_view(list) =
            join([k \in 1..Max(0, ShownTo(list) - ShownFrom(list)) |->
                    ItemLine(list, ShownFrom(list) + k - 1)],
                 NewLine)

====
